---- MODULE Spec2Model ----
(***************************************************************************)
(* Model of the PDF bot's page-specification parser                        *)
(* (utils/pdf_operations.py: PDFOperations.split_pdf, _parse_page_spec)    *)
(* and of its compression-target resolver                                  *)
(* (handlers/compress.py: parse_compression_target), and of the /compress  *)
(* handler that calls the resolver and classifies the outcome              *)
(* (handlers/compress.py: compress_command); of the session of a user:     *)
(* uploads (handlers/merge.py: handle_pdf_file), /merge, /split and        *)
(* /cancel, and the periodic cleanup with the file-name sanitizer          *)
(* (utils/file_manager.py).                                                *)
(*                                                                         *)
(* A Python str is a sequence of one-character strings, so that split,     *)
(* strip, lower, int() and the regular expressions are computed character  *)
(* by character, the way the interpreter computes them.                    *)
(***************************************************************************)
EXTENDS Integers, Sequences, FiniteSets, TLC

VARIABLES
    pdf_exists,     \* split_pdf: pdf_path.exists()
    pages,          \* split_pdf: the `pages` argument (page specification text)
    total_pages,    \* split_pdf: len(reader.pages) of the PDF at pdf_path
    split_result,   \* split_pdf: what the call returned or raised (status "pending" before the call)
    output_file,    \* split_pdf: the file at output_path (the pages written to it, when it exists)
    text,           \* parse_compression_target: the `text` argument
    target,         \* parse_compression_target: the dict returned (type "pending" before the call)
    compression_levels, \* the dict object config.COMPRESSION_LEVELS (its keys)
    pdf_files,      \* context.user_data['pdf_files'] of the user (<<>> when the key is absent)
    files,          \* the files in the user's temporary directory, each with its size in MB
    user_dirs,      \* file_manager.user_dirs: whether the user's directory is tracked
    analytics,      \* the analytics object: enabled, and the operations it recorded
    pc,             \* compress_command: where the handler stands
    reply,          \* compress_command: the message the user sees
    original_size,  \* compress_command: the local original_size
    compression,    \* compress_command: what compress_pdf_advanced returned or raised
    outcome,        \* compress_command: the outcome reported and the file sent
    requests,       \* invocations of the three functions made for different requests
    dir_on_disk,    \* whether the user's temporary directory exists on disk
    documents,      \* the documents the user has sent, each with what handle_pdf_file did
    merge_result,   \* merge_pdfs: what the call returned or raised (status "pending" before the call)
    filename,       \* sanitize_filename: the `filename` argument
    sanitized       \* sanitize_filename: the string returned (status "pending" before the call)

split_vars == <<pdf_exists, pages, total_pages, split_result, output_file>>

session_vars == <<pdf_files, files, user_dirs, analytics, dir_on_disk>>

handler_vars == <<pc, reply, original_size, compression, outcome>>

upload_vars == <<documents, merge_result, filename, sanitized>>

vars == <<split_vars, text, target, compression_levels, session_vars, handler_vars, requests,
          upload_vars>>

----------------------------------------------------------------------------
(* Bounds of the model.                                                    *)

MaxPages == 10      \* PDFs of 1..MaxPages pages
MaxTokens == 2      \* page specifications of up to MaxTokens comma-joined fragments
MaxNumber == 92     \* compression targets with the numbers 0..MaxNumber

----------------------------------------------------------------------------
(* Python str primitives.                                                  *)

Digits == <<"0", "1", "2", "3", "4", "5", "6", "7", "8", "9">>

isdigit(c) == \E i \in 1..10 : Digits[i] = c

DigitVal(c) == (CHOOSE i \in 1..10 : Digits[i] = c) - 1

isspace(c) == c \in {" ", "\t"}

Upper == <<"A", "B", "C", "D", "E", "F", "G", "H", "I", "J", "K", "L", "M",
           "N", "O", "P", "Q", "R", "S", "T", "U", "V", "W", "X", "Y", "Z">>
Lower == <<"a", "b", "c", "d", "e", "f", "g", "h", "i", "j", "k", "l", "m",
           "n", "o", "p", "q", "r", "s", "t", "u", "v", "w", "x", "y", "z">>

\* str.lower() on one character
lower_char(c) ==
    IF \E i \in 1..Len(Upper) : Upper[i] = c
    THEN Lower[CHOOSE i \in 1..Len(Upper) : Upper[i] = c]
    ELSE c

\* str.lower()
lower(s) == [i \in 1..Len(s) |-> lower_char(s[i])]

RECURSIVE lstrip(_)
lstrip(s) == IF s /= <<>> /\ isspace(Head(s)) THEN lstrip(Tail(s)) ELSE s

RECURSIVE rstrip(_)
rstrip(s) ==
    IF s /= <<>> /\ isspace(s[Len(s)]) THEN rstrip(SubSeq(s, 1, Len(s) - 1)) ELSE s

\* str.strip()
strip(s) == rstrip(lstrip(s))

\* `sep in s` for a one-character sep
contains(s, sep) == \E i \in 1..Len(s) : s[i] = sep

\* str.split(sep) for a one-character sep: always at least one piece,
\* empty pieces are kept
RECURSIVE split(_, _)
split(s, sep) ==
    IF ~contains(s, sep) THEN <<s>>
    ELSE LET i == CHOOSE k \in 1..Len(s) :
                      s[k] = sep /\ \A j \in 1..(k - 1) : s[j] /= sep
         IN  <<SubSeq(s, 1, i - 1)>> \o split(SubSeq(s, i + 1, Len(s)), sep)

\* value of a string of decimal digits
RECURSIVE DecimalVal(_)
DecimalVal(s) ==
    IF s = <<>> THEN 0
    ELSE 10 * DecimalVal(SubSeq(s, 1, Len(s) - 1)) + DigitVal(s[Len(s)])

\* the digits-and-underscores body int() accepts: digits, with single
\* underscores allowed only between two digits
IntBody(s) ==
    /\ s /= <<>>
    /\ \A i \in 1..Len(s) : isdigit(s[i]) \/ s[i] = "_"
    /\ isdigit(s[1]) /\ isdigit(s[Len(s)])
    /\ \A i \in 1..(Len(s) - 1) : ~(s[i] = "_" /\ s[i + 1] = "_")

RECURSIVE DropUnderscores(_)
DropUnderscores(s) ==
    IF s = <<>> THEN <<>>
    ELSE IF Head(s) = "_" THEN DropUnderscores(Tail(s))
    ELSE <<Head(s)>> \o DropUnderscores(Tail(s))

\* int(s) raises ValueError exactly when this is FALSE: surrounding
\* whitespace is ignored, one optional sign, then the digits
int_ok(s) ==
    LET t == strip(s)
    IN  /\ t /= <<>>
        /\ IF Head(t) \in {"+", "-"} THEN IntBody(Tail(t)) ELSE IntBody(t)

\* the value of int(s) when int_ok(s)
int(s) ==
    LET t == strip(s)
    IN  IF Head(t) = "-" THEN 0 - DecimalVal(DropUnderscores(Tail(t)))
        ELSE IF Head(t) = "+" THEN DecimalVal(DropUnderscores(Tail(t)))
        ELSE DecimalVal(DropUnderscores(t))

\* a range counted down when a > b
range_either_way(a, b) ==
    IF a <= b THEN [i \in 1..(b - a) |-> a + i - 1]
    ELSE [i \in 1..(a - b) |-> b + i - 1]

\* list(range(a, b)): a, a+1, ..., b-1; empty when a >= b
range(a, b) == [i \in 1..(b - a) |-> a + i - 1]

\* set(lst)
set(lst) == {lst[i] : i \in 1..Len(lst)}

RECURSIVE SortSet(_)
SortSet(S) ==
    IF S = {} THEN <<>>
    ELSE LET m == CHOOSE x \in S : \A y \in S : x <= y
         IN  <<m>> \o SortSet(S \ {m})

\* sorted(lst): the duplicates are kept
RECURSIVE sorted_keep_duplicates(_)
sorted_keep_duplicates(lst) ==
    IF lst = <<>> THEN <<>>
    ELSE LET i == CHOOSE k \in 1..Len(lst) : \A j \in 1..Len(lst) : lst[k] <= lst[j]
         IN  <<lst[i]>> \o
             sorted_keep_duplicates(SubSeq(lst, 1, i - 1) \o SubSeq(lst, i + 1, Len(lst)))

\* sorted(set(lst), reverse=True)
RECURSIVE SortSetDescending(_)
SortSetDescending(S) ==
    IF S = {} THEN <<>>
    ELSE LET m == CHOOSE x \in S : \A y \in S : x >= y
         IN  <<m>> \o SortSetDescending(S \ {m})

sorted_set_descending(lst) == SortSetDescending(set(lst))

\* the distinct elements of lst in the order of their first occurrence
RECURSIVE dedup_unsorted(_)
dedup_unsorted(lst) ==
    IF lst = <<>> THEN <<>>
    ELSE LET r == dedup_unsorted(SubSeq(lst, 1, Len(lst) - 1))
         IN  IF lst[Len(lst)] \in set(r) THEN r ELSE Append(r, lst[Len(lst)])

\* sorted(list(set(lst)))
sorted_set(lst) == SortSet(set(lst))

----------------------------------------------------------------------------
(* PDFOperations._parse_page_spec                                          *)

\* str(n) for n >= 0
RECURSIVE str(_)
str(n) == IF n < 10 THEN <<Digits[n + 1]>> ELSE str(n \div 10) \o <<Digits[(n % 10) + 1]>>

\* the keyword compared without lower()
is_end_keyword_case_sensitive(end) == end = <<"e", "n", "d">>

\* the `Handle "end" keyword` test, applied to the end side of a range
is_end_keyword(end) == lower(end) = <<"e", "n", "d">>

\* the range without its last page
expand_range_exclusive(start_num, end_num) == range(start_num, end_num)

\* pages.extend(range(start_num, end_num + 1))
expand_range(start_num, end_num) == range(start_num, end_num + 1)

\* a part with one side only passes, a part with three sides too
fewer_than_two_parts(range_parts) == Len(range_parts) < 2

\* `if len(range_parts) != 2: continue`
wrong_part_count(range_parts) == Len(range_parts) /= 2

\* one iteration of `for part in parts`: the page numbers the iteration adds
\* to `pages` (none when it ends in a `continue`)
parse_part(raw, n) ==
    LET part == strip(raw)
    IN  IF contains(part, "-")
        THEN LET range_parts == split(part, "-")
             IN  IF wrong_part_count(range_parts) THEN <<>>
                 ELSE LET start == strip(range_parts[1])
                          end0  == strip(range_parts[2])
                          end   == IF is_end_keyword(end0) THEN str(n) ELSE end0
                      IN  IF int_ok(start) /\ int_ok(end)
                          THEN expand_range(int(start), int(end))
                          ELSE <<>>
        ELSE IF int_ok(part) THEN <<int(part)>> ELSE <<>>

\* the loop left at the first part that adds nothing
RECURSIVE parse_parts_until_empty(_, _)
parse_parts_until_empty(parts, n) ==
    IF parts = <<>> THEN <<>>
    ELSE LET added == parse_part(Head(parts), n)
         IN  IF added = <<>> THEN <<>>
             ELSE added \o parse_parts_until_empty(Tail(parts), n)

RECURSIVE parse_parts(_, _)
parse_parts(parts, n) ==
    IF parts = <<>> THEN <<>>
    ELSE parse_part(Head(parts), n) \o parse_parts(Tail(parts), n)

_parse_page_spec(spec, n) == sorted_set(parse_parts(split(spec, ","), n))

----------------------------------------------------------------------------
(* PDFOperations.split_pdf                                                 *)

\* the range test without its lower bound
page_at_most_total(page_num, n) == page_num <= n

\* `if 1 <= page_num <= total_pages`
page_in_range(page_num, n) == 1 <= page_num /\ page_num <= n

\* `for page_num in page_numbers`: the pages added to the writer, or the
\* ValueError raised at the first page that is out of range
RECURSIVE add_pages(_, _, _)
add_pages(page_numbers, n, writer) ==
    IF page_numbers = <<>> THEN [raised |-> FALSE, writer |-> writer]
    ELSE LET page_num == Head(page_numbers)
         IN  IF page_in_range(page_num, n)
             THEN add_pages(Tail(page_numbers), n, Append(writer, page_num))
             ELSE [raised |-> TRUE, page |-> page_num, lo |-> 1, hi |-> n]

\* the emptiness test left out
never_empty(page_numbers) == FALSE

\* `if not page_numbers`
no_pages(page_numbers) == page_numbers = <<>>

\* split_pdf(pdf_path, pages, output_path) on a PDF of n pages:
\* the pages written one by one, so that those before an offending page are
\* in the output when the ValueError is raised
split_pdf_writing_as_it_goes(exists, spec, n) ==
    IF ~exists
    THEN [status |-> "FileNotFoundError", written |-> FALSE]
    ELSE LET page_numbers == _parse_page_spec(spec, n)
         IN  IF no_pages(page_numbers)
             THEN [status |-> "ValueError", message |-> "No valid pages specified",
                   page_numbers |-> page_numbers, written |-> FALSE]
             ELSE LET loop == add_pages(page_numbers, n, <<>>)
                  IN  IF loop.raised
                      THEN [status |-> "ValueError", message |-> "Page out of range",
                            page |-> loop.page, lo |-> loop.lo, hi |-> loop.hi,
                            page_numbers |-> page_numbers, written |-> TRUE,
                            writer |-> SelectSeq(page_numbers,
                                                 LAMBDA q : page_in_range(q, n) /\ q < loop.page)]
                      ELSE [status |-> "ok", success |-> TRUE,
                            pages_extracted |-> Len(page_numbers),
                            page_numbers |-> page_numbers,
                            written |-> TRUE, writer |-> loop.writer]

\* the parsed list written out as it is, empty or out of range
split_pdf_unvalidated(exists, spec, n) ==
    IF ~exists
    THEN [status |-> "FileNotFoundError", written |-> FALSE]
    ELSE LET page_numbers == _parse_page_spec(spec, n)
         IN  [status |-> "ok", success |-> TRUE,
              pages_extracted |-> Len(page_numbers),
              page_numbers |-> page_numbers,
              written |-> TRUE, writer |-> page_numbers]

\* what it returns or raises, and what it writes to output_path
split_pdf(exists, spec, n) ==
    IF ~exists
    THEN [status |-> "FileNotFoundError", written |-> FALSE]
    ELSE LET page_numbers == _parse_page_spec(spec, n)
         IN  IF no_pages(page_numbers)
             THEN [status |-> "ValueError", message |-> "No valid pages specified",
                   page_numbers |-> page_numbers, written |-> FALSE]
             ELSE LET loop == add_pages(page_numbers, n, <<>>)
                  IN  IF loop.raised
                      THEN [status |-> "ValueError", message |-> "Page out of range",
                            page |-> loop.page, lo |-> loop.lo, hi |-> loop.hi,
                            page_numbers |-> page_numbers, written |-> FALSE]
                      ELSE [status |-> "ok", success |-> TRUE,
                            pages_extracted |-> Len(page_numbers),
                            page_numbers |-> page_numbers,
                            written |-> TRUE, writer |-> loop.writer]

\* one call of split_pdf on the PDF and the page specification at hand
SplitPdf ==
    /\ split_result.status = "pending"
    /\ LET r == split_pdf(pdf_exists, pages, total_pages)
       IN  /\ split_result' = r
           /\ output_file' = IF r.written
                             THEN [exists |-> TRUE, pages |-> r.writer]
                             ELSE output_file
    /\ UNCHANGED <<pdf_exists, pages, total_pages, text, target>>
    /\ UNCHANGED <<compression_levels, session_vars, handler_vars, requests, upload_vars>>

----------------------------------------------------------------------------
(* parse_compression_target (handlers/compress.py)                         *)

\* config.COMPRESSION_LEVELS: the names of the quality levels
COMPRESSION_LEVELS ==
    { <<"l", "o", "w">>, <<"d", "e", "f", "a", "u", "l", "t">>, <<"h", "i", "g", "h">> }

PercentMin == 10
PercentMax == 90
KbPerMb == 1024
SizeMaxMb == 50
\* the lower size bound 0.1, as the fraction 1 / SizeMinDen
SizeMinDen == 10

\* number of leading characters of s that are digits
RECURSIVE LeadingDigits(_)
LeadingDigits(s) ==
    IF s /= <<>> /\ isdigit(Head(s)) THEN 1 + LeadingDigits(Tail(s)) ELSE 0

\* whether s starts with the characters of prefix
startswith(s, prefix) ==
    Len(s) >= Len(prefix) /\ SubSeq(s, 1, Len(prefix)) = prefix

RECURSIVE Pow10(_)
Pow10(k) == IF k = 0 THEN 1 ELSE 10 * Pow10(k - 1)

\* re.match of (\d+(?:\.\d+)?)\s* at the start of s: the digits of group 1
\* before and after the point, and what follows the white space. The match
\* is the greedy one: a shorter number is always followed by a digit or by
\* the point, which no suffix of either pattern starts with.
number_prefix(s) ==
    LET k == LeadingDigits(s)
        afterInt == SubSeq(s, k + 1, Len(s))
        f == IF afterInt /= <<>> /\ Head(afterInt) = "."
             THEN LeadingDigits(Tail(afterInt)) ELSE 0
        afterNum == IF f > 0 THEN SubSeq(afterInt, f + 2, Len(afterInt)) ELSE afterInt
    IN  [matched |-> k > 0,
         int_part |-> SubSeq(s, 1, k),
         frac_part |-> IF f > 0 THEN SubSeq(afterInt, 2, f + 1) ELSE <<>>,
         rest |-> lstrip(afterNum)]

\* float(group 1), as the exact fraction num / den
float(m) ==
    [num |-> DecimalVal(m.int_part \o m.frac_part), den |-> Pow10(Len(m.frac_part))]

\* re.match(r'(\d+(?:\.\d+)?)\s*(?:%|percent)', target)
percent_match(tgt) ==
    LET m == number_prefix(tgt)
    IN  /\ m.matched
        /\ \/ startswith(m.rest, <<"%">>)
           \/ startswith(m.rest, <<"p", "e", "r", "c", "e", "n", "t">>)

\* the size pattern anchored at the end of the argument as well
size_match_whole(tgt) ==
    LET m == number_prefix(tgt)
    IN  /\ m.matched
        /\ m.rest \in { <<"m", "b">>, <<"k", "b">>, <<"m">>, <<"k">> }

\* re.match(r'(\d+(?:\.\d+)?)\s*(mb|kb|m|k)', target)
size_match(tgt) ==
    LET m == number_prefix(tgt)
    IN  /\ m.matched
        /\ m.rest /= <<>>
        /\ Head(m.rest) \in {"m", "k"}

\* group 2 of the size match: the first alternative of mb|kb|m|k that fits
size_unit(tgt) ==
    LET rest == number_prefix(tgt).rest
    IN  IF startswith(rest, <<"m", "b">>) THEN "mb"
        ELSE IF startswith(rest, <<"k", "b">>) THEN "kb"
        ELSE IF startswith(rest, <<"m">>) THEN "m"
        ELSE "k"

\* no lower bound on the percentage
percent_at_most_max(v) == v.num <= PercentMax * v.den

\* the bounds taken as exclusive
percent_in_range_exclusive(v) == PercentMin * v.den < v.num /\ v.num < PercentMax * v.den

\* `if 10 <= percent <= 90`
percent_in_range(v) == PercentMin * v.den <= v.num /\ v.num <= PercentMax * v.den

\* the number taken as megabytes whatever the unit
kb_taken_as_mb(v, unit) == v

\* `if unit in ['kb', 'k']: size_mb = size_value / 1024  else: size_mb = size_value`
to_megabytes(v, unit) ==
    IF unit \in {"kb", "k"} THEN [num |-> v.num, den |-> v.den * KbPerMb] ELSE v

\* `if 0.1 <= size_mb <= 50`
size_in_range(mb) == mb.den <= SizeMinDen * mb.num /\ mb.num <= SizeMaxMb * mb.den

\* str.split(maxsplit=1) of a stripped string: the first word and, when
\* something follows it, the remainder after the white space
split_maxsplit1(s) ==
    IF s = <<>> THEN <<>>
    ELSE IF \A i \in 1..Len(s) : ~isspace(s[i]) THEN <<s>>
    ELSE LET i == CHOOSE k \in 1..Len(s) :
                      isspace(s[k]) /\ \A j \in 1..(k - 1) : ~isspace(s[j])
         IN  <<SubSeq(s, 1, i - 1), lstrip(SubSeq(s, i, Len(s)))>>

\* a name is taken for a quality level when it starts with one
is_quality_level_prefix(tgt) == \E q \in COMPRESSION_LEVELS : startswith(tgt, q)

\* `if target in config.COMPRESSION_LEVELS`
is_quality_level(tgt) == tgt \in compression_levels

\* an unreadable target answered with the default quality
guess_default(tgt) ==
    [type |-> "quality", value |-> <<"d", "e", "f", "a", "u", "l", "t">>, unit |-> "None"]

\* `return {'type': 'error', 'value': f'Invalid format: {target}'}`
invalid_format(tgt) ==
    [type |-> "error", value |-> [message |-> "Invalid format", target |-> tgt]]

\* `if len(parts) < 2`
no_parameter(parts) == Len(parts) < 2

\* a missing parameter reported as a format error
missing_parameter_error ==
    [type |-> "error", value |-> [message |-> "Invalid format", target |-> <<>>]]

\* `return {'type': 'quality', 'value': 'default', 'unit': None}`
default_quality == [type |-> "quality", value |-> <<"d", "e", "f", "a", "u", "l", "t">>, unit |-> "None"]

parse_compression_target(txt) ==
    LET parts == split_maxsplit1(strip(lower(txt)))
    IN  IF no_parameter(parts) THEN default_quality
        ELSE
        LET tgt == strip(parts[2])
        IN  IF percent_match(tgt)
            THEN LET percent == float(number_prefix(tgt))
                 IN  IF percent_in_range(percent)
                     THEN [type |-> "percentage", value |-> percent, unit |-> "percent"]
                     ELSE [type |-> "error",
                           value |-> [message |-> "Percentage must be between 10% and 90%",
                                      got |-> percent]]
            ELSE IF size_match(tgt)
            THEN LET size_mb == to_megabytes(float(number_prefix(tgt)), size_unit(tgt))
                 IN  IF size_in_range(size_mb)
                     THEN [type |-> "size", value |-> size_mb, unit |-> "mb"]
                     ELSE [type |-> "error",
                           value |-> [message |-> "Target size must be between 0.1MB and 50MB"]]
            ELSE IF is_quality_level(tgt)
            THEN [type |-> "quality", value |-> tgt, unit |-> "None"]
            ELSE invalid_format(tgt)

\* one call of parse_compression_target on the command text at hand
ParseCompressionTarget ==
    /\ target.type = "pending"
    /\ target' = parse_compression_target(text)
    /\ UNCHANGED <<split_vars, text, compression_levels, session_vars, handler_vars, requests,
                   upload_vars>>

----------------------------------------------------------------------------
(* The page specifications and PDFs split_pdf is applied to.               *)

Fragments ==
    { <<"1">>, <<"3">>, <<"0">>, <<"9", "9">>,
      <<"1", "-", "3">>, <<"2", "-", "4">>, <<"7", "-", "e", "n", "d">>,
      <<"e", "n", "d", "-", "e", "n", "d">>,
      <<"5", "-", "2">>, <<"a", "b", "c">>, <<>>, <<" ">>,
      <<"1", "-", "2", "-", "3">>, <<"-", "3">> }

RECURSIVE join(_)
join(frags) ==
    IF frags = <<>> THEN <<>>
    ELSE IF Len(frags) = 1 THEN frags[1]
    ELSE frags[1] \o <<",">> \o join(Tail(frags))

\* the page specifications the repository's documentation and help texts
\* give as examples
Examples ==
    { <<"1", "-", "3", ",", "5", ",", "7", "-", "e", "n", "d">>,
      <<"1", ",", "a", "b", "c", ",", "3">>,
      <<"1", ",", "3", ",", "5">>,
      <<"2", "-", "e", "n", "d">>,
      <<"3", "-", "E", "N", "D">>,
      <<" ", "3", " ", "-", " ", "E", "n", "d", " ">>,
      <<"1", "-", "1", "5">> }

SpecTexts ==
    Examples \cup
    UNION { { join(fs) : fs \in [1..k -> Fragments] } : k \in 1..MaxTokens }

\* no session of the user: nothing uploaded, nothing stored, nothing recorded
NoSession ==
    /\ pdf_files = <<>>
    /\ files = {}
    /\ user_dirs = FALSE
    /\ analytics = [enabled |-> FALSE, operations |-> <<>>]
    /\ dir_on_disk = FALSE

\* no document sent, merge_pdfs and sanitize_filename not called
NoUploads ==
    /\ documents = <<>>
    /\ merge_result = [status |-> "pending"]
    /\ filename = <<>>
    /\ sanitized = [status |-> "pending"]

\* no /compress request under way
NoCompressRequest ==
    /\ pc = "none"
    /\ reply = "none"
    /\ original_size = [num |-> 0, den |-> 1]
    /\ compression = [status |-> "pending"]
    /\ outcome = [target_met |-> "pending"]

SplitInit ==
    /\ pdf_exists \in BOOLEAN
    /\ pages \in SpecTexts
    /\ total_pages \in 1..MaxPages
    /\ split_result = [status |-> "pending"]
    /\ output_file = [exists |-> FALSE]
    /\ text = <<>>
    /\ target = [type |-> "pending"]
    /\ compression_levels = COMPRESSION_LEVELS
    /\ NoSession
    /\ NoCompressRequest
    /\ requests = <<>>
    /\ NoUploads

SplitNext == SplitPdf

SplitSpec == SplitInit /\ [][SplitNext]_vars

----------------------------------------------------------------------------
(* The command texts parse_compression_target is applied to.               *)

Compress == <<"/", "c", "o", "m", "p", "r", "e", "s", "s">>

Fractions == { <<".", "0">>, <<".", "5">> }

\* the whole numbers the fractions are appended to
Boundaries == { 0, 9, 10, 50, 89, 90 }

Numbers ==
    { str(n) : n \in 0..MaxNumber } \cup
    { str(n) \o f : n \in Boundaries, f \in Fractions } \cup
    { <<"9", ".", "9", "9">>, <<"9", "0", ".", "0", "1">>, <<"5", "0", ".">>,
      <<".", "5">>, <<"-", "5">>, <<"5", "0", "0">>, <<"1", "0", "2", ".", "4">>,
      <<"1", "0", "2">>, <<"5", "1", "2", "0", "0">>, <<"5", "1", "2", "0", "1">> }

Gaps == { <<>>, <<" ">> }

Suffixes ==
    { <<"%">>, <<"p", "e", "r", "c", "e", "n", "t">>, <<"P", "e", "r", "c", "e", "n", "t">>,
      <<"m", "b">>, <<"k", "b">>, <<"K", "B">>, <<"m">>, <<"k">>, <<>>,
      <<"%", "a", "b", "c">>, <<"m", "o", "n", "t", "h", "s">>, <<"x">> }

Words ==
    { <<"l", "o", "w">>, <<"d", "e", "f", "a", "u", "l", "t">>, <<"h", "i", "g", "h">>,
      <<"L", "O", "W">>, <<"H", "i", "g", "h", " ">>, <<"m", "e", "d", "i", "u", "m">>,
      <<"l", "o", "w", "e", "s", "t">>, <<"l", "o", "w", " ", "5", "0", "%">>,
      <<"%">>, <<"m", "b">>, <<"A", "b", "c", " ">> }

Arguments == { n \o g \o x : n \in Numbers, g \in Gaps, x \in Suffixes } \cup Words

\* texts that hold the command word only
BareCommands ==
    { <<>>, Compress, Compress \o <<" ">>, <<" ">> \o Compress \o <<" ", " ">>,
      Compress \o <<"\t">>, <<"/", "C", "O", "M", "P", "R", "E", "S", "S">> }

CommandTexts ==
    BareCommands \cup
    { Compress \o sep \o a : sep \in { <<" ">>, <<" ", " ">> }, a \in Arguments }

ResolveInit ==
    /\ text \in CommandTexts
    /\ target = [type |-> "pending"]
    /\ pdf_exists = FALSE
    /\ pages = <<>>
    /\ total_pages = 1
    /\ split_result = [status |-> "pending"]
    /\ output_file = [exists |-> FALSE]
    /\ compression_levels = COMPRESSION_LEVELS
    /\ NoSession
    /\ NoCompressRequest
    /\ requests = <<>>
    /\ NoUploads

ResolveNext == ParseCompressionTarget

ResolveSpec == ResolveInit /\ [][ResolveNext]_vars

----------------------------------------------------------------------------
(* compress_command (handlers/compress.py): the /compress handler.         *)
(*                                                                         *)
(* Sizes are Python floats; the model keeps them as exact fractions        *)
(* [num, den] (den > 0) and computes the handler's arithmetic on them.     *)

Abs(x) == IF x < 0 THEN -x ELSE x

RECURSIVE gcd(_, _)
gcd(a, b) == IF b = 0 THEN a ELSE gcd(b, a % b)

\* the fraction n/d in lowest terms
Ratio(n, d) ==
    LET g == gcd(Abs(n), Abs(d))
        s == IF d < 0 THEN -1 ELSE 1
    IN  [num |-> (s * n) \div g, den |-> (s * d) \div g]

Number(n) == [num |-> n, den |-> 1]

\* a * b, a - b, a / b (b not zero) and abs(a)
times(a, b) == Ratio(a.num * b.num, a.den * b.den)

minus(a, b) == Ratio(a.num * b.den - b.num * a.den, a.den * b.den)

over(a, b) == Ratio(a.num * b.den, a.den * b.num)

abs(a) == [num |-> Abs(a.num), den |-> a.den]

\* a > b and a >= b
greater(a, b) == a.num * b.den > b.num * a.den

at_least(a, b) == a.num * b.den >= b.num * a.den

\* analytics.track_user: records the operation when analytics is enabled and
\* the database answers, and swallows every failure
track_user(a, connected, operation) ==
    IF a.enabled /\ connected
    THEN [a EXCEPT !.operations = Append(@, operation)]
    ELSE a

\* Path.exists() of a path in the user's directory
path_exists(path) == \E f \in files : f.name = path

\* file_manager.get_file_size_mb
get_file_size_mb(path) ==
    IF ~path_exists(path) THEN Number(0)
    ELSE (CHOOSE f \in files : f.name = path).size

\* a size target is turned down only when it exceeds the original
target_above_original(tgt, original) ==
    tgt.type = "size" /\ greater(tgt.value, original)

\* `if target['type'] == 'size' and target['value'] >= original_size`
target_too_large(tgt, original) ==
    tgt.type = "size" /\ at_least(tgt.value, original)

\* the 0.98 of `original_size_mb * 0.98` and the 15 of `diff_percent > 15`
MinimalRatio == [num |-> 98, den |-> 100]

CloseThreshold == 15

\* an outcome is minimal only when nothing at all was saved
no_reduction(original_mb, compressed_mb) == at_least(compressed_mb, original_mb)

\* `if compressed_size_mb >= original_size_mb * 0.98`
is_minimal(original_mb, compressed_mb) ==
    at_least(compressed_mb, times(original_mb, MinimalRatio))

\* the compressed file is sent on a tie too
compressed_not_larger(original_mb, compressed_mb) == at_least(original_mb, compressed_mb)

\* `if compressed_size_mb < original_size_mb`
compressed_is_smaller(original_mb, compressed_mb) == greater(original_mb, compressed_mb)

\* `expected_size = original_size_mb * (target['value'] / 100)` for a
\* percentage, target['value'] for a size
expected_size(original_mb, tgt) ==
    IF tgt.type = "percentage"
    THEN times(original_mb, over(tgt.value, Number(100)))
    ELSE tgt.value

\* `abs(compressed_size_mb - expected_size) / expected_size * 100`
diff_percent(compressed_mb, expected) ==
    times(over(abs(minus(compressed_mb, expected)), expected), Number(100))

\* a deviation of exactly the threshold counts as off target
off_target_inclusive(diff) == at_least(diff, Number(CloseThreshold))

\* `if diff_percent > 15`
off_target(diff) == greater(diff, Number(CloseThreshold))

\* lines 203-260: the ratio, the minimal-reduction test, the file to send and
\* the comparison with the target; a division by zero raises
classify(original_mb, compressed_mb, tgt) ==
    IF compressed_mb.num > 0 /\ original_mb.num = 0
    THEN [target_met |-> "raised", error |-> "ZeroDivisionError"]
    ELSE IF is_minimal(original_mb, compressed_mb)
    THEN [target_met |-> "Minimal",
          result_path |-> IF compressed_is_smaller(original_mb, compressed_mb)
                          THEN "output_path" ELSE "pdf_path"]
    ELSE IF tgt.type \in {"percentage", "size"}
    THEN LET expected == expected_size(original_mb, tgt)
         IN  IF expected.num = 0
             THEN [target_met |-> "raised", error |-> "ZeroDivisionError"]
             ELSE [target_met |-> IF off_target(diff_percent(compressed_mb, expected))
                                  THEN "Close" ELSE "Met",
                   result_path |-> "output_path"]
    ELSE [target_met |-> "Met", result_path |-> "output_path"]

\* file_manager.cleanup_user_files: a tracked directory is emptied, removed
\* and forgotten; an untracked one is left alone
cleanup_user_files(fs, tracked, on_disk) ==
    IF tracked THEN [files |-> {}, user_dirs |-> FALSE, dir_on_disk |-> FALSE]
    ELSE [files |-> fs, user_dirs |-> tracked, dir_on_disk |-> on_disk]

\* file_manager.get_user_dir: the tracked directory, made and tracked when
\* the user has none
get_user_dir(tracked, on_disk) ==
    IF ~tracked THEN [user_dirs |-> TRUE, dir_on_disk |-> TRUE]
    ELSE [user_dirs |-> tracked, dir_on_disk |-> on_disk]

\* pdf_ops.compress_pdf_advanced(pdf_path, output_path, target), whose body
\* is not in utils/pdf_operations.py: taken from its call in compress_command
\* and from compress_pdf: it raises when the source is missing or the
\* compression fails, else writes output_path and returns
\* (success, original size in MB, compressed size in MB)
compress_pdf_advanced(path, compressed_mb, fails) ==
    IF ~path_exists(path)
    THEN [status |-> "raised", error |-> "FileNotFoundError"]
    ELSE IF fails
    THEN [status |-> "raised", error |-> "Exception"]
    ELSE [status |-> "returned", success |-> TRUE,
          original_size_mb |-> get_file_size_mb(path),
          compressed_size_mb |-> compressed_mb]

MaxQuarters == 52   \* compressed files of 0..MaxQuarters quarters of a MB

\* the sizes compress_pdf_advanced may leave the output with
CompressedSizes ==
    { [num |-> q, den |-> 4] : q \in 0..MaxQuarters } \cup { [num |-> 99, den |-> 10] }

\* lines 85-189: tracking, the checks on the pending files and on the target,
\* and the processing message
CompressCheck ==
    /\ pc = "start"
    /\ \E connected \in (IF analytics.enabled THEN BOOLEAN ELSE {FALSE}) :
          analytics' = track_user(analytics, connected, "compress")
    /\ IF pdf_files = <<>>
       THEN /\ reply' = "No PDF found"
            /\ pc' = "done"
            /\ UNCHANGED <<target, original_size>>
       ELSE IF Len(pdf_files) > 1
       THEN /\ reply' = "Multiple PDFs detected"
            /\ pc' = "done"
            /\ UNCHANGED <<target, original_size>>
       ELSE LET tgt == parse_compression_target(text)
                pdf_path == pdf_files[1]
                size == get_file_size_mb(pdf_path)
            IN  /\ target' = tgt
                /\ IF tgt.type = "error"
                   THEN /\ reply' = "Target error"
                        /\ pc' = "done"
                        /\ UNCHANGED original_size
                   ELSE /\ original_size' = size
                        /\ IF ~path_exists(pdf_path)
                           THEN /\ pc' = "FileNotFoundError"
                                /\ UNCHANGED reply
                           ELSE IF target_too_large(tgt, size)
                           THEN /\ reply' = "Target size too large"
                                /\ pc' = "done"
                           ELSE /\ reply' = "Compressing PDF"
                                /\ pc' = "compress"
    /\ UNCHANGED <<split_vars, text, compression_levels, pdf_files, files, user_dirs>>
    /\ UNCHANGED <<compression, outcome, requests, dir_on_disk, upload_vars>>

\* lines 191-201: the user's directory and the call of compress_pdf_advanced
CompressCall ==
    /\ pc = "compress"
    /\ LET user_dir == get_user_dir(user_dirs, dir_on_disk)
       IN  /\ user_dirs' = user_dir.user_dirs
           /\ dir_on_disk' = user_dir.dir_on_disk
    /\ \E compressed_mb \in CompressedSizes, fails \in BOOLEAN :
          LET r == compress_pdf_advanced(pdf_files[1], compressed_mb, fails)
          IN  /\ compression' = r
              /\ IF r.status = "returned"
                 THEN /\ files' = { f \in files : f.name # "compressed.pdf" } \cup
                                  { [name |-> "compressed.pdf", size |-> compressed_mb] }
                      /\ pc' = "report"
                 ELSE /\ files' = files
                      /\ pc' = "failed"
    /\ UNCHANGED <<split_vars, text, target, compression_levels, pdf_files, analytics>>
    /\ UNCHANGED <<reply, original_size, outcome, requests, upload_vars>>

\* lines 203-305: the outcome, the message and the file sent, the clean-up
CompressReport ==
    /\ pc = "report"
    /\ LET r == classify(compression.original_size_mb, compression.compressed_size_mb, target)
           cleaned == cleanup_user_files(files, user_dirs, dir_on_disk)
       IN  /\ outcome' = r
           /\ IF r.target_met = "raised"
              THEN /\ pc' = "failed"
                   /\ UNCHANGED <<reply, files, user_dirs, dir_on_disk, pdf_files>>
              ELSE /\ reply' = IF r.target_met = "Minimal"
                               THEN "Already optimized" ELSE "Compression complete"
                   /\ files' = cleaned.files
                   /\ user_dirs' = cleaned.user_dirs
                   /\ dir_on_disk' = cleaned.dir_on_disk
                   /\ pdf_files' = <<>>
                   /\ pc' = "done"
    /\ UNCHANGED <<split_vars, text, target, compression_levels, analytics>>
    /\ UNCHANGED <<original_size, compression, requests, upload_vars>>

\* lines 307-330: the failure message and the clean-up
CompressFailed ==
    /\ pc = "failed"
    /\ reply' = "Compression failed"
    /\ LET cleaned == cleanup_user_files(files, user_dirs, dir_on_disk)
       IN  /\ files' = cleaned.files
           /\ user_dirs' = cleaned.user_dirs
           /\ dir_on_disk' = cleaned.dir_on_disk
    /\ pdf_files' = <<>>
    /\ pc' = "done"
    /\ UNCHANGED <<split_vars, text, target, compression_levels, analytics>>
    /\ UNCHANGED <<original_size, compression, outcome, requests, upload_vars>>

----------------------------------------------------------------------------
(* The /compress requests the handler is run on.                           *)

HandlerArguments ==
    { <<>>, <<" ", "l", "o", "w">>, <<" ", "h", "i", "g", "h">>,
      <<" ", "5", "0", "%">>, <<" ", "2", "0", "%">>, <<" ", "1", "0", "%">>,
      <<" ", "9", "0", "%">>, <<" ", "1", "2", ".", "5", "%">>,
      <<" ", "2", "m", "b">>, <<" ", "5", "m", "b">>, <<" ", "1", "0", "m", "b">>,
      <<" ", "2", ".", "5", "m", "b">>, <<" ", "5", "0", "0", "k", "b">>,
      <<" ", "0", "%">>, <<" ", "0", "m", "b">>, <<" ", "9", "5", "%">>,
      <<" ", "5", "1", "m", "b">>, <<" ", "a", "b", "c">> }

HandlerTexts == { Compress \o a : a \in HandlerArguments }

\* the uploaded PDFs a session holds
Uploads == { <<>>, <<"a.pdf">>, <<"a.pdf", "b.pdf">> }

\* the sizes of the uploaded PDFs: 2 MB, 10 MB and 12.5 MB
OriginalSizes == { [num |-> q, den |-> 4] : q \in {8, 40, 50} }

\* the uploads on disk, or nothing when the periodic clean-up removed them
StoredFiles(uploads) ==
    { {} } \cup
    { { [name |-> uploads[i], size |-> s] : i \in DOMAIN uploads } : s \in OriginalSizes }

CompressInit ==
    /\ text \in HandlerTexts
    /\ target = [type |-> "pending"]
    /\ compression_levels = COMPRESSION_LEVELS
    /\ pdf_files \in Uploads
    /\ files \in StoredFiles(pdf_files)
    /\ user_dirs \in (IF pdf_files = <<>> THEN BOOLEAN ELSE {TRUE})
    /\ dir_on_disk = (user_dirs /\ (pdf_files = <<>> \/ files # {}))
    /\ analytics \in { [enabled |-> e, operations |-> <<>>] : e \in BOOLEAN }
    /\ pc = "start"
    /\ reply = "none"
    /\ original_size = [num |-> 0, den |-> 1]
    /\ compression = [status |-> "pending"]
    /\ outcome = [target_met |-> "pending"]
    /\ requests = <<>>
    /\ NoUploads
    /\ pdf_exists = FALSE
    /\ pages = <<>>
    /\ total_pages = 1
    /\ split_result = [status |-> "pending"]
    /\ output_file = [exists |-> FALSE]

CompressNext == CompressCheck \/ CompressCall \/ CompressReport \/ CompressFailed

CompressSpec == CompressInit /\ [][CompressNext]_vars

----------------------------------------------------------------------------
(* split_pdf and parse_compression_target side by side, each called once.  *)

ValidateInit ==
    /\ pdf_exists \in BOOLEAN
    /\ pages \in Examples \cup Fragments
    /\ total_pages \in {1, MaxPages \div 2, MaxPages}
    /\ split_result = [status |-> "pending"]
    /\ output_file = [exists |-> FALSE]
    /\ text \in HandlerTexts
    /\ target = [type |-> "pending"]
    /\ compression_levels = COMPRESSION_LEVELS
    /\ NoSession
    /\ NoCompressRequest
    /\ requests = <<>>
    /\ NoUploads

ValidateNext == SplitPdf \/ ParseCompressionTarget

ValidateSpec == ValidateInit /\ [][ValidateNext]_vars

----------------------------------------------------------------------------
(* Invocations of _parse_page_spec, parse_compression_target and the       *)
(* outcome classification made for different requests, in any order.       *)

MaxRequests == 2    \* requests served side by side

\* an invocation of parse_compression_target that uses up the level it finds
ResolveTargetOnce(r) ==
    /\ requests[r].call = "parse_compression_target"
    /\ requests[r].result = [status |-> "pending"]
    /\ LET result == parse_compression_target(requests[r].input.text)
       IN  /\ requests' = [requests EXCEPT ![r].result = result]
           /\ compression_levels' = IF result.type = "quality"
                                    THEN compression_levels \ {result.value}
                                    ELSE compression_levels
    /\ UNCHANGED <<split_vars, text, target, session_vars, handler_vars, upload_vars>>

\* one invocation of _parse_page_spec
ParsePageSpec(r) ==
    /\ requests[r].call = "_parse_page_spec"
    /\ requests[r].result = [status |-> "pending"]
    /\ LET input == requests[r].input
       IN  requests' = [requests EXCEPT ![r].result =
                           [page_numbers |-> _parse_page_spec(input.pages, input.total_pages)]]
    /\ UNCHANGED <<split_vars, text, target, compression_levels, session_vars, handler_vars,
                   upload_vars>>

\* one invocation of parse_compression_target
ResolveTarget(r) ==
    /\ requests[r].call = "parse_compression_target"
    /\ requests[r].result = [status |-> "pending"]
    /\ requests' = [requests EXCEPT ![r].result =
                        parse_compression_target(requests[r].input.text)]
    /\ UNCHANGED <<split_vars, text, target, compression_levels, session_vars, handler_vars,
                   upload_vars>>

\* one classification of an outcome
Classify(r) ==
    /\ requests[r].call = "classify"
    /\ requests[r].result = [status |-> "pending"]
    /\ LET input == requests[r].input
       IN  requests' = [requests EXCEPT ![r].result =
                           classify(input.original_mb, input.compressed_mb, input.target)]
    /\ UNCHANGED <<split_vars, text, target, compression_levels, session_vars, handler_vars,
                   upload_vars>>

\* a request, and the result its invocation gives when it runs alone
Request(call, input, alone) ==
    [call |-> call, input |-> input, alone |-> alone, result |-> [status |-> "pending"]]

Invocations ==
    { Request("_parse_page_spec", [pages |-> p, total_pages |-> MaxPages],
              [page_numbers |-> _parse_page_spec(p, MaxPages)]) :
         p \in { <<"1", "-", "3", ",", "5", ",", "7", "-", "e", "n", "d">>,
                 <<"1", ",", "a", "b", "c", ",", "3">>, <<"5", "-", "2">> } }
    \cup
    { Request("parse_compression_target", [text |-> Compress \o a],
              parse_compression_target(Compress \o a)) :
         a \in { <<>>, <<" ", "h", "i", "g", "h">>, <<" ", "5", "0", "%">>,
                 <<" ", "a", "b", "c">> } }
    \cup
    { LET o == [num |-> 40, den |-> 4]
          c == [num |-> q, den |-> 4]
          t == [type |-> "percentage", value |-> [num |-> 50, den |-> 1], unit |-> "percent"]
      IN  Request("classify", [original_mb |-> o, compressed_mb |-> c, target |-> t],
                  classify(o, c, t)) : q \in {20, 24, 40} }

ConcurrentInit ==
    /\ compression_levels = COMPRESSION_LEVELS
    /\ requests \in [1..MaxRequests -> Invocations]
    /\ pdf_files \in Uploads
    /\ files \in StoredFiles(pdf_files)
    /\ user_dirs = (pdf_files # <<>>)
    /\ dir_on_disk = (files # {})
    /\ NoUploads
    /\ analytics = [enabled |-> TRUE, operations |-> <<>>]
    /\ NoCompressRequest
    /\ pdf_exists = FALSE
    /\ pages = <<>>
    /\ total_pages = 1
    /\ split_result = [status |-> "pending"]
    /\ output_file = [exists |-> FALSE]
    /\ text = <<>>
    /\ target = [type |-> "pending"]

ConcurrentNext ==
    \E r \in 1..MaxRequests : ParsePageSpec(r) \/ ResolveTarget(r) \/ Classify(r)

ConcurrentSpec == ConcurrentInit /\ [][ConcurrentNext]_vars

----------------------------------------------------------------------------
(* FileManager.sanitize_filename (src/utils/file_manager.py).              *)

NameLimit == 200    \* `if len(sanitized) > 200`

MaxShort == 3       \* every file name of up to MaxShort characters
MaxPad == 6         \* long file names: up to MaxPad characters around the limit

\* the character '\x00', which a TLA+ string cannot hold
NUL == "\\x00"

\* an occurrence of old in s begins at position i
occurs_at(s, old, i) ==
    /\ i >= 1
    /\ i + Len(old) - 1 <= Len(s)
    /\ SubSeq(s, i, i + Len(old) - 1) = old

\* str.replace scans from the left and skips what it has replaced: of the
\* occurrences of a one- or two-character old that overlap in a row, the
\* first, the third, ... are the ones replaced
replaced_at(s, old, i) ==
    /\ occurs_at(s, old, i)
    /\ LET first == CHOOSE p \in 1..i :
                       /\ \A q \in p..i : occurs_at(s, old, q)
                       /\ ~occurs_at(s, old, p - 1)
       IN  Len(old) = 1 \/ (i - first) % 2 = 0

\* str.replace(old, new) for a one- or two-character old and a new of one
\* character: each replaced occurrence becomes new
replace(s, old, new) ==
    LET dropped == "dropped"
        marked == [i \in 1..Len(s) |->
                     IF replaced_at(s, old, i) THEN new[1]
                     ELSE IF Len(old) = 2 /\ replaced_at(s, old, i - 1) THEN dropped
                     ELSE s[i]]
    IN  SelectSeq(marked, LAMBDA c : c # dropped)

\* str.rfind(c) counted from 1, 0 when c does not occur
rfind(s, c) ==
    IF \E i \in 1..Len(s) : s[i] = c
    THEN CHOOSE i \in 1..Len(s) : s[i] = c /\ \A j \in (i + 1)..Len(s) : s[j] # c
    ELSE 0

\* os.path.splitext: the extension starts at the last dot of the last
\* component, leading dots of the component do not count
splitext(p) ==
    LET sepIndex == rfind(p, "/")
        dotIndex == rfind(p, ".")
    IN  IF /\ dotIndex > sepIndex
           /\ \E i \in (sepIndex + 1)..(dotIndex - 1) : p[i] # "."
        THEN [name |-> SubSeq(p, 1, dotIndex - 1), ext |-> SubSeq(p, dotIndex, Len(p))]
        ELSE [name |-> p, ext |-> <<>>]

\* the slice s[:k]
slice_to(s, k) ==
    IF k >= 0 THEN SubSeq(s, 1, IF k < Len(s) THEN k ELSE Len(s))
    ELSE SubSeq(s, 1, IF Len(s) + k > 0 THEN Len(s) + k ELSE 0)

\* line 209: dangerous_chars, in the order they are replaced
dangerous_chars == << <<"/">>, <<"\\">>, <<".", ".">>, <<NUL>>, <<"\n">>, <<"\r">> >>

\* lines 212-213: the loop of replacements
RECURSIVE replace_all(_, _)
replace_all(s, chars) ==
    IF chars = <<>> THEN s
    ELSE replace_all(replace(s, Head(chars), <<"_">>), Tail(chars))

\* lines 216-218: the length limit
limit_length(s) ==
    IF Len(s) > NameLimit
    THEN LET parts == splitext(s)
         IN  slice_to(parts.name, NameLimit - Len(parts.ext)) \o parts.ext
    ELSE s

sanitize_filename(name) == limit_length(replace_all(name, dangerous_chars))

SanitizeFilename ==
    /\ sanitized.status = "pending"
    /\ sanitized' = [status |-> "returned", value |-> sanitize_filename(filename)]
    /\ UNCHANGED <<split_vars, text, target, compression_levels, session_vars, handler_vars,
                   requests, documents, merge_result, filename>>

(* The file names sanitize_filename is run on.                             *)

NameAlphabet == {"a", ".", "/", "\\", NUL, "\n", "\r"}

RECURSIVE NamesOver(_, _)
NamesOver(alphabet, n) ==
    IF n = 0 THEN { <<>> }
    ELSE LET shorter == NamesOver(alphabet, n - 1)
         IN  shorter \cup { s \o <<c>> : s \in shorter, c \in alphabet }

Pad(c, n) == [i \in 1..n |-> c]

\* names around the length limit: a stem, a short middle, a tail, an extension
LongNames ==
    { Pad("a", NameLimit - before) \o middle \o Pad("b", after) \o ext :
        before \in 0..MaxPad, after \in 0..MaxPad,
        middle \in { <<>>, <<".">>, <<".", ".">>, <<"/">> },
        ext \in { <<>>, <<".">>, <<".", "p", "d", "f">> } }

Filenames == NamesOver(NameAlphabet, MaxShort) \cup LongNames

\* no split_pdf call, no /compress message
NoSplit ==
    /\ pdf_exists = FALSE
    /\ pages = <<>>
    /\ total_pages = 1
    /\ split_result = [status |-> "pending"]
    /\ output_file = [exists |-> FALSE]

NoTarget ==
    /\ text = <<>>
    /\ target = [type |-> "pending"]
    /\ compression_levels = COMPRESSION_LEVELS

SanitizeInit ==
    /\ filename \in Filenames
    /\ sanitized = [status |-> "pending"]
    /\ documents = <<>>
    /\ merge_result = [status |-> "pending"]
    /\ NoSplit
    /\ NoTarget
    /\ NoSession
    /\ NoCompressRequest
    /\ requests = <<>>

SanitizeNext == SanitizeFilename

SanitizeSpec == SanitizeInit /\ [][SanitizeNext]_vars

----------------------------------------------------------------------------
(* PDFOperations.merge_pdfs (src/utils/pdf_operations.py) and the /merge    *)
(* handler merge_command (src/handlers/merge.py).                           *)

MAX_MERGE_FILES == 20

MaxFiles == 22      \* sessions of 0..MaxFiles pending PDFs

\* merge_pdfs without its two checks of the number of files
merge_pdfs_unguarded(pdf_paths, raises) ==
    IF \E i \in 1..Len(pdf_paths) : ~path_exists(pdf_paths[i])
    THEN [status |-> "FileNotFoundError", written |-> FALSE]
    ELSE IF raises
    THEN [status |-> "Exception", written |-> FALSE]
    ELSE [status |-> "ok", written |-> TRUE, merged |-> pdf_paths]

\* merge_pdfs(pdf_paths, output_path); `raises` stands for PyPDF2 failing on
\* one of the files or on the write
merge_pdfs(pdf_paths, raises) ==
    IF Len(pdf_paths) < 2
    THEN [status |-> "ValueError", written |-> FALSE,
          message |-> "At least 2 PDF files are required for merging"]
    ELSE IF Len(pdf_paths) > MAX_MERGE_FILES
    THEN [status |-> "ValueError", written |-> FALSE,
          message |-> "Maximum 20 files can be merged at once"]
    ELSE IF \E i \in 1..Len(pdf_paths) : ~path_exists(pdf_paths[i])
    THEN [status |-> "FileNotFoundError", written |-> FALSE]
    ELSE IF raises
    THEN [status |-> "Exception", written |-> FALSE]
    ELSE [status |-> "ok", written |-> TRUE, merged |-> pdf_paths]

\* output_path of merge_command: "merged.pdf" in the user's directory
merged_pdf == <<"m", "e", "r", "g", "e", "d", ".", "p", "d", "f">>

\* output_path of split_command: "extracted.pdf" in the user's directory
extracted_pdf == <<"e", "x", "t", "r", "a", "c", "t", "e", "d", ".", "p", "d", "f">>

\* the file a handler writes into the user's directory
with_output(fs, name) ==
    { f \in fs : f.name # name } \cup { [name |-> name, size |-> Number(1)] }

\* merge_pdfs called on the pending list as it stands
MergePdfs ==
    /\ pc = "start"
    /\ merge_result.status = "pending"
    /\ \E raises \in BOOLEAN :
          LET r == merge_pdfs(pdf_files, raises)
          IN  /\ merge_result' = r
              /\ files' = IF r.written THEN with_output(files, merged_pdf) ELSE files
    /\ pc' = "called"
    /\ UNCHANGED <<split_vars, text, target, compression_levels, requests>>
    /\ UNCHANGED <<pdf_files, user_dirs, analytics, dir_on_disk>>
    /\ UNCHANGED <<reply, original_size, compression, outcome>>
    /\ UNCHANGED <<documents, filename, sanitized>>

\* merge_command, lines 14-133
MergeCommand ==
    /\ pc = "start"
    /\ \E connected \in (IF analytics.enabled THEN BOOLEAN ELSE {FALSE}) :
          analytics' = track_user(analytics, connected, "merge")
    /\ IF Len(pdf_files) < 2
       THEN /\ reply' = "Not enough PDFs to merge"
            /\ UNCHANGED <<pdf_files, files, user_dirs, dir_on_disk, merge_result>>
       ELSE IF Len(pdf_files) > MAX_MERGE_FILES
       THEN /\ reply' = "Too many files"
            /\ UNCHANGED <<pdf_files, files, user_dirs, dir_on_disk, merge_result>>
       ELSE \E raises \in BOOLEAN :
               LET user_dir == get_user_dir(user_dirs, dir_on_disk)
                   r == merge_pdfs(pdf_files, raises)
                   written == IF r.written THEN with_output(files, merged_pdf) ELSE files
                   cleaned == cleanup_user_files(written, user_dir.user_dirs,
                                                 user_dir.dir_on_disk)
               IN  /\ merge_result' = r
                   /\ reply' = IF r.status = "ok" THEN "Merge complete" ELSE "Merge failed"
                   /\ files' = cleaned.files
                   /\ user_dirs' = cleaned.user_dirs
                   /\ dir_on_disk' = cleaned.dir_on_disk
                   /\ pdf_files' = <<>>
    /\ pc' = "done"
    /\ UNCHANGED <<split_vars, text, target, compression_levels, requests>>
    /\ UNCHANGED <<original_size, compression, outcome>>
    /\ UNCHANGED <<documents, filename, sanitized>>

(* The sessions /merge is run on.                                          *)

\* the path of the i-th PDF a user sent
PdfName(i) == str(i) \o <<".", "p", "d", "f">>

PendingPdfs(n) == [i \in 1..n |-> PdfName(i)]

MergeInit ==
    /\ \E n \in 0..MaxFiles :
          /\ pdf_files = PendingPdfs(n)
          /\ files \in { { [name |-> PdfName(i), size |-> Number(1)] : i \in 1..n },
                         { [name |-> PdfName(i), size |-> Number(1)] : i \in 2..n },
                         {} }
          /\ user_dirs \in (IF n = 0 THEN BOOLEAN ELSE {TRUE})
          /\ dir_on_disk = (user_dirs /\ (n = 0 \/ files # {}))
    /\ analytics \in { [enabled |-> e, operations |-> <<>>] : e \in BOOLEAN }
    /\ pc = "start"
    /\ reply = "none"
    /\ original_size = [num |-> 0, den |-> 1]
    /\ compression = [status |-> "pending"]
    /\ outcome = [target_met |-> "pending"]
    /\ NoUploads
    /\ NoSplit
    /\ NoTarget
    /\ requests = <<>>

MergeNext == MergePdfs \/ MergeCommand

MergeSpec == MergeInit /\ [][MergeNext]_vars

----------------------------------------------------------------------------
(* The session of one user: handle_pdf_file (src/handlers/merge.py),       *)
(* split_command (src/handlers/split.py), cancel_command                   *)
(* (src/handlers/start.py) and the periodic cleanup_old_files              *)
(* (src/utils/file_manager.py).                                            *)

\* config.MAX_FILE_SIZE, in bytes
MAX_FILE_SIZE == 50 * 1024 * 1024

BytesPerMb == 1024 * 1024

\* max_age_seconds of cleanup_old_files(max_age_hours=1)
MaxAgeSeconds == 3600

MaxDocuments == 2   \* documents sent between two clearings of the session

\* str.endswith
endswith(s, suffix) ==
    Len(s) >= Len(suffix) /\ SubSeq(s, Len(s) - Len(suffix) + 1, Len(s)) = suffix

dot_pdf == <<".", "p", "d", "f">>

\* Path.suffix of a file name: from the last dot on, unless that dot is the
\* first or the last character
path_suffix(name) ==
    LET i == rfind(name, ".")
    IN  IF 1 < i /\ i < Len(name) THEN SubSeq(name, i, Len(name)) ELSE <<>>

\* file_manager.validate_pdf on the file stored as `path` in fs
validate_pdf(fs, path) ==
    /\ \E f \in fs : f.name = path
    /\ lower(path_suffix(path)) = dot_pdf
    /\ (CHOOSE f \in fs : f.name = path).header

\* file_manager.download_file: the size check, the user's directory and the
\* download into it; `fails` stands for Telegram failing to deliver the file
download_file(document, path, fs, tracked, on_disk, fails) ==
    IF document.file_size > MAX_FILE_SIZE
    THEN [status |-> "ValueError", files |-> fs, user_dirs |-> tracked,
          dir_on_disk |-> on_disk]
    ELSE LET user_dir == get_user_dir(tracked, on_disk)
         IN  IF fails \/ ~user_dir.dir_on_disk
             THEN [status |-> "Exception", files |-> fs,
                   user_dirs |-> user_dir.user_dirs, dir_on_disk |-> user_dir.dir_on_disk]
             ELSE [status |-> "ok",
                   files |-> { f \in fs : f.name # path } \cup
                             { [name |-> path,
                                size |-> Ratio(document.file_size, BytesPerMb),
                                header |-> document.header] },
                   user_dirs |-> user_dir.user_dirs, dir_on_disk |-> user_dir.dir_on_disk]

\* handle_pdf_file that stores the path before it validates the file
handle_pdf_file_storing_first(document, raises, pending, fs, tracked, on_disk) ==
    LET path == sanitize_filename(document.file_name)
        got == download_file(document, path, fs, tracked, on_disk, raises = "download_file")
    IN  IF got.status = "ok"
        THEN [reply |-> "PDF received", validated |-> "not called", path |-> path,
              pdf_files |-> Append(pending, path), files |-> got.files,
              user_dirs |-> got.user_dirs, dir_on_disk |-> got.dir_on_disk]
        ELSE [reply |-> "Something went wrong", validated |-> "not called", path |-> path,
              pdf_files |-> pending, files |-> got.files,
              user_dirs |-> got.user_dirs, dir_on_disk |-> got.dir_on_disk]

\* handle_pdf_file, lines 135-242: the reply, whether validate_pdf was
\* reached and what it said, and the session and the disk afterwards
handle_pdf_file(document, raises, pending, fs, tracked, on_disk) ==
    LET unchanged == [reply |-> "none", validated |-> "not called", path |-> <<>>,
                      pdf_files |-> pending,
                      files |-> fs, user_dirs |-> tracked, dir_on_disk |-> on_disk]
    IN  IF ~endswith(lower(document.file_name), dot_pdf)
        THEN [unchanged EXCEPT !.reply = "Invalid file type"]
        ELSE IF document.file_size > MAX_FILE_SIZE
        THEN [unchanged EXCEPT !.reply = "File too large"]
        ELSE IF raises = "get_file"
        THEN [unchanged EXCEPT !.reply = "Something went wrong"]
        ELSE LET path == sanitize_filename(document.file_name)
                 got == download_file(document, path, fs, tracked, on_disk,
                                      raises = "download_file")
                 after == [unchanged EXCEPT !.path = path, !.files = got.files,
                                            !.user_dirs = got.user_dirs,
                                            !.dir_on_disk = got.dir_on_disk]
             IN  IF got.status = "ValueError"
                 THEN [after EXCEPT !.reply = "Download failed"]
                 ELSE IF got.status = "Exception"
                 THEN [after EXCEPT !.reply = "Something went wrong"]
                 ELSE IF ~validate_pdf(got.files, path)
                 THEN [after EXCEPT !.reply = "Invalid PDF file",
                                    !.validated = "failed",
                                    !.files = { f \in got.files : f.name # path }]
                 ELSE [after EXCEPT !.reply = "PDF received",
                                    !.validated = "passed",
                                    !.pdf_files = Append(pending, path)]

(* The documents and the /split messages of a session.                     *)

Documents ==
    { [file_name |-> n, file_size |-> BytesPerMb, header |-> TRUE] :
        n \in { <<"a">> \o dot_pdf, <<"b", ".", "P", "D", "F">>, dot_pdf,
                <<"a", ".", "t", "x", "t">> } } \cup
    { [file_name |-> <<"a">> \o dot_pdf, file_size |-> BytesPerMb, header |-> FALSE] } \cup
    { [file_name |-> <<"a">> \o dot_pdf, file_size |-> s, header |-> TRUE] :
        s \in {MAX_FILE_SIZE, MAX_FILE_SIZE + 1} }

Split == <<"/", "s", "p", "l", "i", "t">>

SplitTexts ==
    { Split, Split \o <<" ", "1", "-", "2">>, Split \o <<" ", "9">>,
      Split \o <<" ", "x">> }

\* one document sent to the bot: handle_pdf_file
HandlePdfFile ==
    /\ pc = "none"
    /\ Len(documents) < MaxDocuments
    /\ \E document \in Documents, raises \in {"nothing", "get_file", "download_file"} :
          LET r == handle_pdf_file(document, raises, pdf_files, files, user_dirs,
                                   dir_on_disk)
          IN  /\ reply' = r.reply
              /\ pdf_files' = r.pdf_files
              /\ files' = r.files
              /\ user_dirs' = r.user_dirs
              /\ dir_on_disk' = r.dir_on_disk
              /\ documents' = Append(documents,
                                     [file_name |-> document.file_name,
                                      file_size |-> document.file_size,
                                      validated |-> r.validated,
                                      path |-> r.path])
    /\ UNCHANGED <<split_vars, text, target, compression_levels, analytics, requests>>
    /\ UNCHANGED <<pc, original_size, compression, outcome>>
    /\ UNCHANGED <<merge_result, filename, sanitized>>

\* split_command, lines 14-96: the checks, get_pdf_info and the message that
\* the extraction has started; get_pdf_info raises FileNotFoundError for a
\* pending file that is gone, which only the bot's error_handler answers
SplitCheck ==
    /\ pc = "none"
    /\ \E message \in SplitTexts :
          /\ text' = message
          /\ IF pdf_files = <<>>
             THEN /\ reply' = "No PDF found"
                  /\ UNCHANGED <<pc, pages, split_result>>
             ELSE IF Len(pdf_files) > 1
             THEN /\ reply' = "Multiple PDFs detected"
                  /\ UNCHANGED <<pc, pages, split_result>>
             ELSE LET command_parts == split_maxsplit1(message)
                  IN  IF ~path_exists(pdf_files[1])
                      THEN /\ reply' = "An unexpected error occurred"
                           /\ split_result' = [status |-> "FileNotFoundError",
                                               written |-> FALSE]
                           /\ UNCHANGED <<pc, pages>>
                      ELSE IF Len(command_parts) < 2
                      THEN /\ reply' = "Please specify pages to extract"
                           /\ UNCHANGED <<pc, pages, split_result>>
                      ELSE /\ pages' = strip(command_parts[2])
                           /\ reply' = "Extracting pages"
                           /\ split_result' = [status |-> "pending"]
                           /\ pc' = "split"
    /\ UNCHANGED <<pdf_exists, total_pages, output_file, target, compression_levels>>
    /\ UNCHANGED <<session_vars, original_size, compression, outcome, requests, upload_vars>>

\* split_command, lines 98-180: the try block and its two handlers;
\* `raises` stands for PyPDF2 or Telegram failing inside the try block
SplitRun ==
    /\ pc = "split"
    /\ \E raises \in BOOLEAN :
          LET user_dir == get_user_dir(user_dirs, dir_on_disk)
              called == split_pdf(path_exists(pdf_files[1]), pages, total_pages)
              r == IF raises /\ called.status # "FileNotFoundError"
                   THEN [status |-> "Exception", written |-> FALSE]
                   ELSE called
              written == IF r.written THEN with_output(files, extracted_pdf) ELSE files
              cleaned == cleanup_user_files(written, user_dir.user_dirs,
                                            user_dir.dir_on_disk)
          IN  /\ split_result' = r
              /\ IF r.status = "ValueError"
                 THEN /\ reply' = "Invalid page specification"
                      /\ user_dirs' = user_dir.user_dirs
                      /\ dir_on_disk' = user_dir.dir_on_disk
                      /\ UNCHANGED <<pdf_files, files, documents>>
                 ELSE /\ reply' = IF r.status = "ok" THEN "Extraction complete"
                                  ELSE "Extraction failed"
                      /\ files' = cleaned.files
                      /\ user_dirs' = cleaned.user_dirs
                      /\ dir_on_disk' = cleaned.dir_on_disk
                      /\ pdf_files' = <<>>
                      /\ documents' = <<>>
    /\ pc' = "none"
    /\ UNCHANGED <<pdf_exists, pages, total_pages, output_file, text, target>>
    /\ UNCHANGED <<compression_levels, analytics, requests>>
    /\ UNCHANGED <<original_size, compression, outcome>>
    /\ UNCHANGED <<merge_result, filename, sanitized>>

\* cancel_command
CancelCommand ==
    /\ pc = "none"
    /\ \E connected \in (IF analytics.enabled THEN BOOLEAN ELSE {FALSE}) :
          analytics' = track_user(analytics, connected, "cancel")
    /\ LET cleaned == cleanup_user_files(files, user_dirs, dir_on_disk)
       IN  /\ files' = cleaned.files
           /\ user_dirs' = cleaned.user_dirs
           /\ dir_on_disk' = cleaned.dir_on_disk
    /\ pdf_files' = <<>>
    /\ documents' = <<>>
    /\ reply' = "Operation cancelled"
    /\ UNCHANGED <<split_vars, text, target, compression_levels, requests>>
    /\ UNCHANGED <<pc, original_size, compression, outcome>>
    /\ UNCHANGED <<merge_result, filename, sanitized>>

\* file_manager.cleanup_old_files(max_age_hours=1) on the user's directory,
\* `dir_age` seconds after the directory was last modified
cleanup_old_files(fs, on_disk, dir_age) ==
    IF on_disk /\ dir_age > MaxAgeSeconds
    THEN [files |-> {}, dir_on_disk |-> FALSE]
    ELSE [files |-> fs, dir_on_disk |-> on_disk]

\* one round of cleanup_scheduler, at any await of a handler or between two
\* handlers
CleanupScheduler ==
    /\ \E dir_age \in {MaxAgeSeconds, MaxAgeSeconds + 1} :
          LET cleaned == cleanup_old_files(files, dir_on_disk, dir_age)
          IN  /\ files' = cleaned.files
              /\ dir_on_disk' = cleaned.dir_on_disk
    /\ UNCHANGED <<split_vars, text, target, compression_levels, requests>>
    /\ UNCHANGED <<pdf_files, user_dirs, analytics, handler_vars, upload_vars>>

SessionInit ==
    /\ NoSession
    /\ NoUploads
    /\ NoTarget
    /\ pdf_exists = FALSE
    /\ pages = <<>>
    /\ total_pages = 1
    /\ split_result = [status |-> "pending"]
    /\ output_file = [exists |-> FALSE]
    /\ pc = "none"
    /\ reply = "none"
    /\ original_size = [num |-> 0, den |-> 1]
    /\ compression = [status |-> "pending"]
    /\ outcome = [target_met |-> "pending"]
    /\ requests = <<>>

SessionNext == HandlePdfFile \/ CancelCommand \/ CleanupScheduler

SessionSpec == SessionInit /\ [][SessionNext]_vars

(* The sessions /split is run on: the PDFs a user sent, stored by           *)
(* handle_pdf_file.                                                         *)

SplitSessions == { <<>>, << <<"a">> \o dot_pdf >>,
                   << <<"a">> \o dot_pdf, <<"b", ".", "P", "D", "F">> >> }

SplitCommandInit ==
    /\ pdf_files \in SplitSessions
    /\ files = { [name |-> pdf_files[i], size |-> Number(1), header |-> TRUE] :
                   i \in DOMAIN pdf_files }
    /\ user_dirs = (pdf_files # <<>>)
    /\ dir_on_disk = user_dirs
    /\ analytics = [enabled |-> FALSE, operations |-> <<>>]
    /\ NoUploads
    /\ NoTarget
    /\ pdf_exists = FALSE
    /\ pages = <<>>
    /\ total_pages \in {1, MaxPages \div 2}
    /\ split_result = [status |-> "pending"]
    /\ output_file = [exists |-> FALSE]
    /\ pc = "none"
    /\ reply = "none"
    /\ original_size = [num |-> 0, den |-> 1]
    /\ compression = [status |-> "pending"]
    /\ outcome = [target_met |-> "pending"]
    /\ requests = <<>>

SplitCommandNext == SplitCheck \/ SplitRun \/ CleanupScheduler

SplitCommandSpec == SplitCommandInit /\ [][SplitCommandNext]_vars

----------------------------------------------------------------------------
(* Vocabulary of the properties of the page parser.                        *)

\* split_pdf ran on an existing PDF, so the parser was applied
Parsed == split_result.status \in {"ok", "ValueError"}

\* the comma-separated tokens of the page specification
Tokens == split(pages, ",")

AllDigits(t) == t /= <<>> /\ \A i \in 1..Len(t) : isdigit(t[i])

DashCount(t) == Cardinality({i \in 1..Len(t) : t[i] = "-"})

DashAt(t) == CHOOSE i \in 1..Len(t) : t[i] = "-"

\* the two sides of a token with exactly one '-'
StartSide(t) == strip(SubSeq(t, 1, DashAt(t) - 1))
EndSide(t) == strip(SubSeq(t, DashAt(t) + 1, Len(t)))

IsEndWord(t) ==
    /\ Len(t) = 3
    /\ t[1] \in {"e", "E"} /\ t[2] \in {"n", "N"} /\ t[3] \in {"d", "D"}

\* a single integer N
IsSingle(t) == AllDigits(strip(t))

\* a range A-B with A <= B, where B may be the keyword
IsForwardRange(t, n) ==
    /\ DashCount(t) = 1
    /\ AllDigits(StartSide(t))
    /\ \/ AllDigits(EndSide(t)) /\ DecimalVal(StartSide(t)) <= DecimalVal(EndSide(t))
       \/ IsEndWord(EndSide(t)) /\ DecimalVal(StartSide(t)) <= n

WellFormed(t, n) == IsSingle(t) \/ IsForwardRange(t, n)

\* the pages a well-formed token denotes
Denoted(t, n) ==
    IF IsSingle(t) THEN {DecimalVal(strip(t))}
    ELSE IF IsEndWord(EndSide(t)) THEN DecimalVal(StartSide(t))..n
    ELSE DecimalVal(StartSide(t))..DecimalVal(EndSide(t))

\* l lists exactly the elements of S, in strictly ascending order
IsAscendingListOf(l, S) ==
    /\ Len(l) = Cardinality(S)
    /\ {l[i] : i \in 1..Len(l)} = S
    /\ \A i \in 1..Len(l) : \A j \in 1..Len(l) : i < j => l[i] < l[j]

\* a token the parser cannot read: a single token int() rejects, a token with
\* more than one '-', or a range with a side int() rejects (the keyword is
\* read on the end side)
Malformed(t) ==
    IF DashCount(t) = 0 THEN ~int_ok(strip(t))
    ELSE IF DashCount(t) /= 1 THEN TRUE
    ELSE \/ ~int_ok(StartSide(t))
         \/ ~(int_ok(EndSide(t)) \/ IsEndWord(EndSide(t)))

\* a range A-B of two integers with A > B
Reversed(t, n) ==
    /\ DashCount(t) = 1
    /\ AllDigits(StartSide(t))
    /\ \/ AllDigits(EndSide(t)) /\ DecimalVal(StartSide(t)) > DecimalVal(EndSide(t))
       \/ IsEndWord(EndSide(t)) /\ DecimalVal(StartSide(t)) > n

RECURSIVE WithoutMalformed(_)
WithoutMalformed(ts) ==
    IF ts = <<>> THEN <<>>
    ELSE IF Malformed(Head(ts)) THEN WithoutMalformed(Tail(ts))
    ELSE <<Head(ts)>> \o WithoutMalformed(Tail(ts))

----------------------------------------------------------------------------
(* Properties of the page parser and of split_pdf.                         *)

\* C1: for a page specification of well-formed tokens (single integers and
\* ranges A-B with A <= B, B possibly 'end') the parser returns the union of
\* the pages the tokens denote, as a strictly ascending list;
\* parse("1-3,5,7-end", 10) = [1,2,3,5,7,8,9,10], parse("2-end", 5) = [2,3,4,5].
C1_ParserReturnsUnion ==
    Parsed =>
      /\ (\A i \in 1..Len(Tokens) : WellFormed(Tokens[i], total_pages)) =>
            IsAscendingListOf(split_result.page_numbers,
                UNION {Denoted(Tokens[i], total_pages) : i \in 1..Len(Tokens)})
      /\ (pages = <<"1", "-", "3", ",", "5", ",", "7", "-", "e", "n", "d">>
          /\ total_pages = 10) =>
            split_result.page_numbers = <<1, 2, 3, 5, 7, 8, 9, 10>>
      /\ (pages = <<"2", "-", "e", "n", "d">> /\ total_pages = 5) =>
            split_result.page_numbers = <<2, 3, 4, 5>>

C1_Witness ==
    /\ split_result.status = "ok"
    /\ pages = <<"1", "-", "3", ",", "5", ",", "7", "-", "e", "n", "d">>
    /\ total_pages = 10
    /\ split_result.page_numbers = <<1, 2, 3, 5, 7, 8, 9, 10>>

\* C2: when split_pdf succeeds, the page list it used is non-empty, strictly
\* ascending (so free of duplicates, also for overlapping ranges), every page
\* is within 1..total_pages, and the reported count is the list's length.
C2_SuccessPageList ==
    split_result.status = "ok" =>
      LET l == split_result.page_numbers
      IN  /\ Len(l) >= 1
          /\ \A i \in 1..Len(l) : \A j \in 1..Len(l) : i < j => l[i] < l[j]
          /\ \A i \in 1..Len(l) : 1 <= l[i] /\ l[i] <= total_pages
          /\ split_result.pages_extracted = Len(l)
          /\ output_file = [exists |-> TRUE, pages |-> l]

C2_Witness ==
    /\ split_result.status = "ok"
    /\ pages = <<"1", "-", "3", ",", "2", "-", "4">>
    /\ split_result.page_numbers = <<1, 2, 3, 4>>
    /\ split_result.pages_extracted = 4

\* C3: if any parsed page number lies outside 1..total_pages (page 0
\* included), split_pdf fails with a ValueError naming an out-of-range page
\* of the list and the valid range 1..total_pages; nothing is extracted,
\* also when other tokens of the specification are valid.
C3_OutOfRangeFails ==
    (Parsed /\ \E i \in 1..Len(split_result.page_numbers) :
                  ~(split_result.page_numbers[i] \in 1..total_pages)) =>
      /\ split_result.status = "ValueError"
      /\ split_result.message = "Page out of range"
      /\ \E i \in 1..Len(split_result.page_numbers) :
            split_result.page_numbers[i] = split_result.page
      /\ ~(split_result.page \in 1..total_pages)
      /\ split_result.lo = 1 /\ split_result.hi = total_pages
      /\ output_file = [exists |-> FALSE]

C3_Witness ==
    /\ split_result.status = "ValueError"
    /\ pages = <<"1", ",", "9", "9">>
    /\ total_pages = 10
    /\ split_result.page_numbers = <<1, 99>>
    /\ split_result.page = 99

\* C4 as stated: split "1-15" on a 10-page PDF fails citing page 15 and the
\* range 1-10.
C4_Original ==
    (Parsed /\ pages = <<"1", "-", "1", "5">> /\ total_pages = 10) =>
      /\ split_result.status = "ValueError"
      /\ split_result.message = "Page out of range"
      /\ split_result.page = 15
      /\ split_result.lo = 1 /\ split_result.hi = 10

\* C4 (amended): split "1-15" on a 10-page PDF fails with a ValueError that
\* cites page 11, the first page of the ascending list that exceeds the
\* document, and the valid range 1-10.
C4_CitesFirstOffendingPage ==
    (Parsed /\ pages = <<"1", "-", "1", "5">> /\ total_pages = 10) =>
      /\ split_result.status = "ValueError"
      /\ split_result.message = "Page out of range"
      /\ split_result.page = 11
      /\ split_result.lo = 1 /\ split_result.hi = 10

C4_Witness ==
    /\ pages = <<"1", "-", "1", "5">>
    /\ total_pages = 10
    /\ split_result.status = "ValueError"
    /\ split_result.page_numbers = range(1, 16)
    /\ split_result.page = 11

\* C5: if the parsed page list is empty, split_pdf fails with
\* ValueError("No valid pages specified"); this is the outcome for the empty
\* string, a whitespace-only string, a string of commas, a specification of
\* malformed tokens only and one of reversed ranges only.
C5_EmptyListFails ==
    Parsed =>
      /\ split_result.page_numbers = <<>> =>
            /\ split_result.status = "ValueError"
            /\ split_result.message = "No valid pages specified"
            /\ output_file = [exists |-> FALSE]
      /\ (\A i \in 1..Len(Tokens) :
             Malformed(Tokens[i]) \/ Reversed(Tokens[i], total_pages)) =>
            /\ split_result.status = "ValueError"
            /\ split_result.message = "No valid pages specified"

C5_Witness ==
    /\ split_result.status = "ValueError"
    /\ split_result.message = "No valid pages specified"
    /\ pages = <<"5", "-", "2">>

\* C6: a token the parser cannot read is dropped without failing the parse,
\* and the result is the result for the specification without those tokens;
\* parse("1,abc,3", 10) = [1,3].
C6_LenientSkipping ==
    Parsed =>
      /\ split_result.page_numbers =
            _parse_page_spec(join(WithoutMalformed(Tokens)), total_pages)
      /\ pages = <<"1", ",", "a", "b", "c", ",", "3">> =>
            split_result.page_numbers = <<1, 3>>

C6_Witness ==
    /\ Parsed
    /\ pages = <<"1", ",", "a", "b", "c", ",", "3">>
    /\ total_pages = 10
    /\ split_result.status = "ok"
    /\ split_result.page_numbers = <<1, 3>>

\* C7 as stated: 'end' is substituted on either side of a range, so
\* "end-end" on a 5-page PDF yields [5].
C7_Original ==
    (Parsed /\ pages = <<"e", "n", "d", "-", "e", "n", "d">> /\ total_pages = 5) =>
      split_result.page_numbers = <<5>>

\* C7 (amended): 'end' is read case-insensitively on the end side of a range
\* only, where it stands for total_pages ("3-END" on a 5-page PDF yields
\* [3,4,5]); a range whose start side is 'end' is skipped like any other
\* unreadable token, so "end-end" yields no pages.
C7_EndKeywordOnEndSideOnly ==
    Parsed =>
      /\ (pages = <<"3", "-", "E", "N", "D">> /\ total_pages = 5) =>
            split_result.page_numbers = <<3, 4, 5>>
      /\ (Len(Tokens) = 1 /\ DashCount(pages) = 1 /\ AllDigits(StartSide(pages))
          /\ IsEndWord(EndSide(pages))) =>
            IsAscendingListOf(split_result.page_numbers,
                              DecimalVal(StartSide(pages))..total_pages)
      /\ pages = <<"e", "n", "d", "-", "e", "n", "d">> =>
            split_result.page_numbers = <<>>

C7_Witness ==
    /\ split_result.status = "ok"
    /\ pages = <<"3", "-", "E", "N", "D">>
    /\ total_pages = 5
    /\ split_result.page_numbers = <<3, 4, 5>>

C7_WitnessStartSide ==
    /\ split_result.status = "ValueError"
    /\ pages = <<"e", "n", "d", "-", "e", "n", "d">>
    /\ total_pages = 5

\* C8: the parser's result does not depend on the order of the tokens: every
\* permutation of the comma-separated tokens gives the list the parser gave
\* ("3,1" and "1,3" both give [1,3]).
C8_TokenOrderIrrelevant ==
    Parsed =>
      /\ \A perm \in Permutations(1..Len(Tokens)) :
            _parse_page_spec(join([i \in 1..Len(Tokens) |-> Tokens[perm[i]]]),
                             total_pages)
              = split_result.page_numbers
      /\ pages \in {<<"3", ",", "1">>, <<"1", ",", "3">>} =>
            split_result.page_numbers = <<1, 3>>

C8_Witness ==
    /\ split_result.status = "ok"
    /\ pages = <<"3", ",", "1">>
    /\ split_result.page_numbers = <<1, 3>>

----------------------------------------------------------------------------
(* Properties of the compression-target resolver.                          *)

Resolved == target.type /= "pending"

\* the text holds one word at most: nothing follows the command word but
\* white space
OnlyCommandWord(txt) ==
    LET first == CHOOSE i \in 1..(Len(txt) + 1) :
                     (i = Len(txt) + 1 \/ ~isspace(txt[i])) /\ \A j \in 1..(i - 1) : isspace(txt[j])
        last == CHOOSE i \in 0..Len(txt) :
                     (i = 0 \/ ~isspace(txt[i])) /\ \A j \in (i + 1)..Len(txt) : isspace(txt[j])
    IN  \A i \in first..last : ~isspace(txt[i])

\* the argument of the command: what follows the command word, lower-cased
\* and trimmed
Argument(txt) == strip(split_maxsplit1(strip(lower(txt)))[2])

\* the text is the command, one blank, the whole number and `suffix`
IsCommandWith(txt, whole, suffix) == txt = Compress \o <<" ">> \o str(whole) \o suffix

\* C9: a command text that holds only the command word (no argument, or only
\* white space after it) resolves to the quality level 'default', never to
\* an error.
C9_NoArgumentIsDefault ==
    (Resolved /\ OnlyCommandWord(text)) =>
      /\ target.type = "quality"
      /\ target.value = <<"d", "e", "f", "a", "u", "l", "t">>
      /\ target.unit = "None"

C9_Witness ==
    /\ text = Compress \o <<" ">>
    /\ target.type = "quality"
    /\ target.value = <<"d", "e", "f", "a", "u", "l", "t">>

\* C10: an argument that matches the percentage pattern with the number v
\* resolves to the percentage v when 10 <= v <= 90 (bounds included) and
\* otherwise to an error that cites v and the 10%-90% bound; 10% and 90%
\* are accepted, 9% and 91% are rejected.
C10_PercentageBounds ==
    Resolved =>
      /\ (~OnlyCommandWord(text) /\ percent_match(Argument(text))) =>
            LET v == float(number_prefix(Argument(text)))
            IN  IF 10 * v.den <= v.num /\ v.num <= 90 * v.den
                THEN target = [type |-> "percentage", value |-> v, unit |-> "percent"]
                ELSE /\ target.type = "error"
                     /\ target.value.message = "Percentage must be between 10% and 90%"
                     /\ target.value.got = v
      /\ \A w \in {10, 90} :
            IsCommandWith(text, w, <<"%">>) =>
                target = [type |-> "percentage", value |-> [num |-> w, den |-> 1],
                          unit |-> "percent"]
      /\ \A w \in {9, 91} :
            IsCommandWith(text, w, <<"%">>) =>
                /\ target.type = "error"
                /\ target.value.got = [num |-> w, den |-> 1]

C10_Witness ==
    /\ text = Compress \o <<" ", "9", "0", "%">>
    /\ target = [type |-> "percentage", value |-> [num |-> 90, den |-> 1], unit |-> "percent"]

C10_WitnessRejected ==
    /\ text = Compress \o <<" ", "9", "1", "%">>
    /\ target.type = "error"
    /\ target.value.got = [num |-> 91, den |-> 1]

\* the names of the quality levels
QualityNames ==
    { <<"l", "o", "w">>, <<"d", "e", "f", "a", "u", "l", "t">>, <<"h", "i", "g", "h">> }

\* the command has an argument, which the resolver has resolved
ResolvedArgument == Resolved /\ ~OnlyCommandWord(text)

\* the argument matches the absolute-size pattern and is left to it
SizeArgument(arg) == ~percent_match(arg) /\ size_match(arg)

\* the argument matches neither pattern and is no quality name
UnreadableArgument(arg) ==
    ~percent_match(arg) /\ ~size_match(arg) /\ ~(arg \in QualityNames)

\* C11: an argument that matches the absolute-size pattern with the number n
\* and the unit u resolves to the size n/1024 MB for kb and k, n MB for mb
\* and m, when that size lies within 0.1..50 MB (bounds included), and to the
\* size error otherwise; the value returned is in megabytes whatever the
\* unit (500kb gives 500/1024, 2mb gives 2).
C11_SizeInMegabytes ==
    /\ (ResolvedArgument /\ SizeArgument(Argument(text))) =>
          LET m == number_prefix(Argument(text))
              n == float(m)
              mb == IF Head(m.rest) = "k"
                    THEN [num |-> n.num, den |-> n.den * 1024] ELSE n
          IN  IF mb.den <= 10 * mb.num /\ mb.num <= 50 * mb.den
              THEN target = [type |-> "size", value |-> mb, unit |-> "mb"]
              ELSE /\ target.type = "error"
                   /\ target.value.message = "Target size must be between 0.1MB and 50MB"
    /\ (Resolved /\ text = Compress \o <<" ", "5", "0", "0", "k", "b">>) =>
          target = [type |-> "size", value |-> [num |-> 500, den |-> 1024], unit |-> "mb"]
    /\ (Resolved /\ text = Compress \o <<" ", "2", "m", "b">>) =>
          target = [type |-> "size", value |-> [num |-> 2, den |-> 1], unit |-> "mb"]

C11_Witness ==
    /\ text = Compress \o <<" ", "5", "0", "0", "k", "b">>
    /\ target = [type |-> "size", value |-> [num |-> 500, den |-> 1024], unit |-> "mb"]

C11_WitnessRejected ==
    /\ text = Compress \o <<" ", "5", "1", "2", "0", "1", "k", "b">>
    /\ target.type = "error"

\* C12: the resolver tries the percentage pattern, then the absolute-size
\* pattern, then the quality names, then fails, and the first that applies
\* decides; a quality level is returned only for an argument that is exactly
\* low, default or high; no argument matches both numeric patterns.
C12_FixedPrecedence ==
    ResolvedArgument =>
      LET arg == Argument(text)
          byPercent == \/ target.type = "percentage"
                       \/ /\ target.type = "error"
                          /\ target.value.message = "Percentage must be between 10% and 90%"
          bySize == \/ target.type = "size"
                    \/ /\ target.type = "error"
                       /\ target.value.message = "Target size must be between 0.1MB and 50MB"
          byName == target.type = "quality"
          byNone == target.type = "error" /\ target.value.message = "Invalid format"
      IN  /\ ~(percent_match(arg) /\ size_match(arg))
          /\ byPercent <=> percent_match(arg)
          /\ bySize <=> (~percent_match(arg) /\ size_match(arg))
          /\ byName <=> (~percent_match(arg) /\ ~size_match(arg) /\ arg \in QualityNames)
          /\ byNone <=> (~percent_match(arg) /\ ~size_match(arg) /\ ~(arg \in QualityNames))
          /\ byName => target.value = arg

C12_Witness ==
    /\ text = Compress \o <<" ", "H", "i", "g", "h", " ">>
    /\ target = [type |-> "quality", value |-> <<"h", "i", "g", "h">>, unit |-> "None"]

C12_WitnessNearName ==
    /\ text = Compress \o <<" ", "l", "o", "w", "e", "s", "t">>
    /\ target.type = "error"

\* C13: an argument that matches neither numeric pattern and is no quality
\* name ("-5%" and "50" among them) resolves to the error 'Invalid format'
\* carrying the lower-cased, trimmed argument; no target is guessed for it.
C13_InvalidFormat ==
    /\ ResolvedArgument =>
          LET arg == Argument(text)
          IN  UnreadableArgument(arg) =>
                target = [type |-> "error",
                          value |-> [message |-> "Invalid format", target |-> arg]]
    /\ (Resolved /\ text = Compress \o <<" ", "-", "5", "%">>) =>
          target = [type |-> "error",
                    value |-> [message |-> "Invalid format", target |-> <<"-", "5", "%">>]]
    /\ (Resolved /\ text = Compress \o <<" ", "5", "0">>) =>
          target = [type |-> "error",
                    value |-> [message |-> "Invalid format", target |-> <<"5", "0">>]]
    /\ (Resolved /\ text = Compress \o <<" ", " ", "A", "b", "c", " ">>) =>
          target = [type |-> "error",
                    value |-> [message |-> "Invalid format", target |-> <<"a", "b", "c">>]]

C13_Witness ==
    /\ text = Compress \o <<" ", "-", "5", "%">>
    /\ target.type = "error"
    /\ target.value = [message |-> "Invalid format", target |-> <<"-", "5", "%">>]

C13_WitnessLowered ==
    /\ text = Compress \o <<" ", " ", "A", "b", "c", " ">>
    /\ target.type = "error"
    /\ target.value = [message |-> "Invalid format", target |-> <<"a", "b", "c">>]

----------------------------------------------------------------------------
(* Vocabulary of the properties of the /compress handler.                  *)

\* the handler measured a pending PDF that was on disk and resolved a target
Measured ==
    /\ pc \notin {"start", "FileNotFoundError"}
    /\ target.type \notin {"pending", "error"}

\* compress_pdf_advanced was called
Called == compression.status # "pending"

\* the handler classified what compress_pdf_advanced returned
Classified == outcome.target_met \in {"Minimal", "Met", "Close"}

\* the text of the request
IsRequest(arg) == text = Compress \o arg

\* the sizes compress_pdf_advanced returned are o and c quarters of a MB
Returned(o, c) ==
    /\ compression.status = "returned"
    /\ compression.original_size_mb = [num |-> o, den |-> 4]
    /\ compression.compressed_size_mb = [num |-> c, den |-> 4]

C14_WitnessCalled ==
    /\ IsRequest(<<" ", "2", "m", "b">>)
    /\ original_size = [num |-> 40, den |-> 4]
    /\ compression.status = "returned"

\* C15: whatever the target, the outcome is Minimal exactly when the
\* compressed size is at least 0.98 of the original size, so Met and Close
\* are decided only below that; 9.9 MB out of 10 MB with the default quality
\* is Minimal.
C15_MinimalFirst ==
    /\ Classified =>
          LET o == compression.original_size_mb
              c == compression.compressed_size_mb
          IN  (outcome.target_met = "Minimal") <=>
                 (100 * c.num * o.den >= 98 * o.num * c.den)
    /\ (/\ Classified
        /\ IsRequest(<<>>)
        /\ compression.original_size_mb = [num |-> 40, den |-> 4]
        /\ compression.compressed_size_mb = [num |-> 99, den |-> 10])
       => outcome.target_met = "Minimal"

C15_Witness ==
    /\ IsRequest(<<>>)
    /\ compression.status = "returned"
    /\ compression.original_size_mb = [num |-> 40, den |-> 4]
    /\ compression.compressed_size_mb = [num |-> 99, den |-> 10]
    /\ outcome.target_met = "Minimal"

C15_WitnessBoundary ==
    /\ IsRequest(<<" ", "5", "0", "%">>)
    /\ Returned(50, 49)
    /\ outcome.target_met = "Minimal"

C15_WitnessSize ==
    /\ IsRequest(<<" ", "5", "m", "b">>)
    /\ Returned(40, 40)
    /\ outcome.target_met = "Minimal"

\* C16: in the Minimal outcome the compressed file is sent only when it is
\* strictly smaller than the original; on a tie, or when it is larger, the
\* original is sent.
C16_SmallerFileSent ==
    (Classified /\ outcome.target_met = "Minimal") =>
       LET o == compression.original_size_mb
           c == compression.compressed_size_mb
       IN  /\ outcome.result_path \in {"output_path", "pdf_path"}
           /\ (outcome.result_path = "output_path") <=>
                 (c.num * o.den < o.num * c.den)

C16_Witness ==
    /\ Returned(50, 49)
    /\ outcome.target_met = "Minimal"
    /\ outcome.result_path = "output_path"

C16_WitnessTie ==
    /\ Returned(40, 40)
    /\ outcome.target_met = "Minimal"
    /\ outcome.result_path = "pdf_path"

C16_WitnessLarger ==
    /\ Returned(8, 9)
    /\ outcome.target_met = "Minimal"
    /\ outcome.result_path = "pdf_path"

\* C17: below the minimal bound, a percentage target (expected size = that
\* share of the original) and a size target (expected size = the target) are
\* Close exactly when the compressed size is more than 15% away from the
\* expected size, above or below it, a deviation of exactly 15% being Met; a
\* quality target is always Met; 5 MB out of 10 MB at 50% is Met, 6 MB is Close.
C17_CloseBeyondFifteenPercent ==
    /\ (Classified /\ outcome.target_met # "Minimal") =>
          LET o == compression.original_size_mb
              c == compression.compressed_size_mb
              v == target.value
              \* |c - e| * 100 > 15 * e, both sides times the denominators,
              \* with e = o * v / 100 for a percentage and e = v for a size
              far == IF target.type = "percentage"
                     THEN Abs(c.num * o.den * v.den * 100 - o.num * v.num * c.den) * 100
                             > 15 * o.num * v.num * c.den
                     ELSE Abs(c.num * v.den - v.num * c.den) * 100 > 15 * v.num * c.den
          IN  /\ outcome.result_path = "output_path"
              /\ IF target.type = "quality"
                 THEN outcome.target_met = "Met"
                 ELSE (outcome.target_met = "Close") <=> far
    /\ (Classified /\ IsRequest(<<" ", "5", "0", "%">>) /\ Returned(40, 20))
          => outcome.target_met = "Met"
    /\ (Classified /\ IsRequest(<<" ", "5", "0", "%">>) /\ Returned(40, 24))
          => outcome.target_met = "Close"
    /\ (Classified /\ IsRequest(<<" ", "5", "0", "%">>) /\ Returned(40, 23))
          => outcome.target_met = "Met"
    /\ (Classified /\ IsRequest(<<" ", "5", "0", "%">>) /\ Returned(40, 16))
          => outcome.target_met = "Close"

C17_Witness ==
    /\ IsRequest(<<" ", "5", "0", "%">>)
    /\ Returned(40, 24)
    /\ outcome.target_met = "Close"

C17_WitnessMet ==
    /\ IsRequest(<<" ", "5", "0", "%">>)
    /\ Returned(40, 20)
    /\ outcome.target_met = "Met"

C17_WitnessExactlyFifteen ==
    /\ IsRequest(<<" ", "5", "m", "b">>)
    /\ Returned(40, 23)
    /\ outcome.target_met = "Met"

C17_WitnessUndershoot ==
    /\ IsRequest(<<" ", "5", "m", "b">>)
    /\ Returned(50, 16)
    /\ outcome.target_met = "Close"

C17_WitnessQuality ==
    /\ IsRequest(<<" ", "l", "o", "w">>)
    /\ Returned(40, 4)
    /\ outcome.target_met = "Met"

\* C19: every percentage or size target the resolver returns is strictly
\* positive, a target of 0 is turned down before compress_pdf_advanced is
\* called, and with an original of more than 0 MB the comparison with the
\* target never divides by zero.
C19_NoZeroDivisor ==
    /\ target.type \in {"percentage", "size"} => target.value.num > 0
    /\ (target.type # "pending" /\ text \in { Compress \o <<" ", "0", "%">>,
                                              Compress \o <<" ", "0", "m", "b">> })
          => /\ target.type = "error"
             /\ reply = "Target error"
             /\ ~Called
    /\ (/\ compression.status = "returned"
        /\ compression.original_size_mb.num > 0
        /\ target.type \in {"percentage", "size"}
        /\ outcome.target_met # "pending")
          => /\ outcome.target_met \in {"Minimal", "Met", "Close"}
             /\ LET o == compression.original_size_mb
                IN  (IF target.type = "percentage"
                     THEN o.num * target.value.num ELSE target.value.num) > 0

C19_Witness ==
    /\ IsRequest(<<" ", "1", "0", "%">>)
    /\ Returned(40, 4)
    /\ outcome.target_met = "Met"

C19_WitnessZero ==
    /\ IsRequest(<<" ", "0", "%">>)
    /\ pdf_files = <<"a.pdf">>
    /\ reply = "Target error"
    /\ pc = "done"

----------------------------------------------------------------------------
(* How failures of validation are reported.                                *)

\* the page list split_pdf obtained is empty
EmptyPageList == Parsed /\ split_result.page_numbers = <<>>

\* the page list split_pdf obtained holds a page outside the PDF
PageOutOfRange ==
    /\ Parsed
    /\ \E i \in DOMAIN split_result.page_numbers :
          split_result.page_numbers[i] \notin 1..total_pages

\* the argument of the request is unreadable or out of range
BadTarget ==
    text \in { Compress \o a : a \in { <<" ", "a", "b", "c">>, <<" ", "0", "%">>,
                                      <<" ", "9", "5", "%">>, <<" ", "0", "m", "b">>,
                                      <<" ", "5", "1", "m", "b">> } }

\* C18 as stated: neither the page parser nor the resolver reports an
\* expected validation failure by raising; each returns an error result.
C18_Original ==
    /\ split_result.status # "ValueError"
    /\ target.type # "raised"

\* C18: the resolver reports an unreadable or out-of-range target by
\* returning a result of type error and never raises; split_pdf reports an
\* empty page list and a page out of range by raising ValueError, with
\* nothing written, and returns only for a non-empty list within the PDF.
C18_ResolverReturnsSplitRaises ==
    /\ Resolved =>
          /\ target.type \in {"quality", "percentage", "size", "error"}
          /\ BadTarget <=> target.type = "error"
    /\ EmptyPageList =>
          /\ split_result.status = "ValueError"
          /\ split_result.message = "No valid pages specified"
          /\ ~output_file.exists
    /\ (PageOutOfRange /\ ~EmptyPageList) =>
          /\ split_result.status = "ValueError"
          /\ split_result.message = "Page out of range"
          /\ ~output_file.exists
    /\ (Parsed /\ ~EmptyPageList /\ ~PageOutOfRange) => split_result.status = "ok"

C18_Witness ==
    /\ EmptyPageList
    /\ split_result.status = "ValueError"
    /\ BadTarget
    /\ target.type = "error"

C18_WitnessOutOfRange ==
    /\ PageOutOfRange
    /\ split_result.status = "ValueError"
    /\ split_result.message = "Page out of range"

----------------------------------------------------------------------------
(* Invocations for different requests.                                     *)

\* the invocation of request r is over
Answered(r) == requests[r].result # [status |-> "pending"]

C20_WitnessMixed ==
    /\ \A r \in 1..MaxRequests : Answered(r)
    /\ requests[1].call = "_parse_page_spec"
    /\ requests[2].call = "classify"

----------------------------------------------------------------------------
(* Further properties of the page parser and of split_pdf.                 *)

\* the well-formed tokens among the tokens of the page specification
WellFormedTokens == { i \in 1..Len(Tokens) : WellFormed(Tokens[i], total_pages) }

\* the reversed ranges among them
ReversedTokens == { i \in 1..Len(Tokens) : Reversed(Tokens[i], total_pages) }

\* C21: a reversed range A-B with A > B adds no page and raises nothing: a
\* specification of reversed ranges and well-formed tokens yields exactly
\* the pages of the well-formed tokens; "5-2,1" yields [1].
C21_ReversedRangeAddsNothing ==
    Parsed =>
      /\ (/\ ReversedTokens # {}
          /\ WellFormedTokens \cup ReversedTokens = 1..Len(Tokens)) =>
            /\ IsAscendingListOf(split_result.page_numbers,
                   UNION { Denoted(Tokens[i], total_pages) : i \in WellFormedTokens })
            /\ split_result.status = "ValueError" =>
                   \/ WellFormedTokens = {}
                   \/ split_result.message = "Page out of range"
      /\ pages = <<"5", "-", "2", ",", "1">> =>
            /\ split_result.page_numbers = <<1>>
            /\ split_result.status = "ok"

C21_Witness ==
    /\ pages = <<"5", "-", "2", ",", "1">>
    /\ split_result.status = "ok"
    /\ split_result.page_numbers = <<1>>
    /\ output_file = [exists |-> TRUE, pages |-> <<1>>]

\* C24: a call of split_pdf that fails with the empty-list or the
\* out-of-range ValueError leaves the output file as it was, not created and
\* not modified, also when pages of the list before the offending one were
\* within the PDF.
C24_NothingWrittenOnFailure ==
    [][(split_result.status = "pending" /\ split_result'.status = "ValueError")
          => /\ output_file' = output_file
             /\ ~output_file'.exists
             /\ ~split_result'.written]_vars

C24_Witness ==
    /\ pages = <<"1", ",", "9", "9">>
    /\ split_result.status = "ValueError"
    /\ split_result.page_numbers = <<1, 99>>
    /\ split_result.page = 99
    /\ output_file = [exists |-> FALSE]

C24_WitnessEmpty ==
    /\ split_result.status = "ValueError"
    /\ split_result.message = "No valid pages specified"
    /\ output_file = [exists |-> FALSE]

----------------------------------------------------------------------------
(* Further properties of the compression-target resolver.                  *)

\* the argument begins with a number, optional white space and a percent sign
\* or the word percent
BeginsAsPercentage(arg) ==
    LET m == number_prefix(arg)
    IN  /\ m.matched
        /\ \/ startswith(m.rest, <<"%">>)
           \/ startswith(m.rest, <<"p", "e", "r", "c", "e", "n", "t">>)

\* the argument begins with a number, optional white space and mb, kb, m or k
BeginsAsSize(arg) ==
    LET m == number_prefix(arg)
    IN  m.matched /\ (startswith(m.rest, <<"m">>) \/ startswith(m.rest, <<"k">>))

\* C28: an argument that begins with a number, optional white space and a
\* suffix of one of the two patterns is resolved by that pattern whatever
\* follows the suffix: to the percentage, or to the size in MB, of that
\* number, or to that pattern's range error, never to 'Invalid format';
\* "50%abc" is the percentage 50 and "2 months" the size 2 MB.
C28_AnchoredAtStartOnly ==
    /\ ResolvedArgument =>
          LET arg == Argument(text)
              n == float(number_prefix(arg))
              rest == number_prefix(arg).rest
          IN  /\ BeginsAsPercentage(arg) =>
                    \/ target = [type |-> "percentage", value |-> n, unit |-> "percent"]
                    \/ /\ target.type = "error"
                       /\ target.value.message = "Percentage must be between 10% and 90%"
                       /\ ~(10 * n.den <= n.num /\ n.num <= 90 * n.den)
              /\ BeginsAsSize(arg) =>
                    LET mb == IF Head(rest) = "k"
                              THEN [num |-> n.num, den |-> n.den * 1024] ELSE n
                    IN  \/ target = [type |-> "size", value |-> mb, unit |-> "mb"]
                        \/ /\ target.type = "error"
                           /\ target.value.message = "Target size must be between 0.1MB and 50MB"
                           /\ ~(mb.den <= 10 * mb.num /\ mb.num <= 50 * mb.den)
    /\ (Resolved /\ text = Compress \o <<" ", "5", "0", "%", "a", "b", "c">>) =>
          target = [type |-> "percentage", value |-> [num |-> 50, den |-> 1], unit |-> "percent"]
    /\ (Resolved /\ text = Compress \o <<" ", "2", " ", "m", "o", "n", "t", "h", "s">>) =>
          target = [type |-> "size", value |-> [num |-> 2, den |-> 1], unit |-> "mb"]

C28_Witness ==
    /\ text = Compress \o <<" ", "2", " ", "m", "o", "n", "t", "h", "s">>
    /\ target = [type |-> "size", value |-> [num |-> 2, den |-> 1], unit |-> "mb"]

C28_WitnessPercentage ==
    /\ text = Compress \o <<" ", "5", "0", "%", "a", "b", "c">>
    /\ target = [type |-> "percentage", value |-> [num |-> 50, den |-> 1], unit |-> "percent"]

----------------------------------------------------------------------------
(* An algebraic property of the page parser.                               *)

\* the positions of the commas of the page specification
Commas == { i \in 1..Len(pages) : pages[i] = "," }

\* C29: for every way of writing the page specification as s1 + "," + s2,
\* the parser's list for it is the ascending, duplicate-free list of the
\* pages of s1 and of s2 parsed on their own; when s1 = s2 it is the list
\* of s1.
C29_DistributesOverComma ==
    Parsed =>
      \A i \in Commas :
         LET s1 == SubSeq(pages, 1, i - 1)
             s2 == SubSeq(pages, i + 1, Len(pages))
             l1 == _parse_page_spec(s1, total_pages)
             l2 == _parse_page_spec(s2, total_pages)
         IN  /\ IsAscendingListOf(split_result.page_numbers,
                    { l1[k] : k \in 1..Len(l1) } \cup { l2[k] : k \in 1..Len(l2) })
             /\ s1 = s2 => split_result.page_numbers = l1

C29_Witness ==
    /\ pages = <<"2", "-", "4", ",", "1", "-", "3">>
    /\ total_pages = 10
    /\ Parsed
    /\ split_result.page_numbers = <<1, 2, 3, 4>>

C29_WitnessSameTwice ==
    /\ pages = <<"1", "-", "3", ",", "1", "-", "3">>
    /\ total_pages = 10
    /\ Parsed
    /\ split_result.page_numbers = <<1, 2, 3>>

C29_WitnessThreeParts ==
    /\ pages = <<"1", ",", "a", "b", "c", ",", "3">>
    /\ Parsed
    /\ split_result.page_numbers = <<1, 3>>

\* ---------------------------------------------------------------------------
\* C25: the checks of /compress in their order
\* ---------------------------------------------------------------------------

\* the step in which compress_command runs its checks
ChecksRun == pc = "start" /\ pc' # "start"

\* the replies of the four early exits
EarlyReplies ==
    { "No PDF found", "Multiple PDFs detected", "Target error", "Target size too large" }

\* the reply the first failing check asks for, "none" when every check passes
FirstFailingCheck ==
    IF pdf_files = <<>> THEN "No PDF found"
    ELSE IF Len(pdf_files) > 1 THEN "Multiple PDFs detected"
    ELSE LET tgt == parse_compression_target(text)
         IN  IF tgt.type = "error" THEN "Target error"
             ELSE IF /\ tgt.type = "size"
                     /\ at_least(tgt.value, get_file_size_mb(pdf_files[1]))
                  THEN "Target size too large"
                  ELSE "none"

\* C25: when /compress runs its checks (no pending PDF, more than one pending
\* PDF, target resolves to an error, size target not smaller than the
\* original), the first check that fails determines the reply, and every
\* such early exit ends the request and leaves the pending files, the stored
\* files, the tracked directory and the compression call untouched.
C25_FirstFailingCheckReplies ==
    [][ChecksRun =>
          /\ FirstFailingCheck # "none" => reply' = FirstFailingCheck
          /\ reply' \in EarlyReplies =>
                /\ pc' = "done"
                /\ pdf_files' = pdf_files
                /\ files' = files
                /\ user_dirs' = user_dirs
                /\ compression' = compression]_vars

\* the same checks for a pending PDF that is still stored
C25_FirstFailingCheckRepliesStored ==
    [][(ChecksRun /\ (pdf_files # <<>> => path_exists(pdf_files[1]))) =>
          /\ FirstFailingCheck # "none" => reply' = FirstFailingCheck
          /\ FirstFailingCheck = "none" => reply' = "Compressing PDF"
          /\ reply' \in EarlyReplies =>
                /\ pc' = "done"
                /\ pdf_files' = pdf_files
                /\ files' = files
                /\ user_dirs' = user_dirs
                /\ compression' = compression]_vars

\* a malformed target sent with no pending PDF is answered "No PDF found"
C25_WitnessNoPdfBeforeFormat ==
    /\ pc = "done"
    /\ pdf_files = <<>>
    /\ parse_compression_target(text).type = "error"
    /\ reply = "No PDF found"

\* a size target sent for a pending PDF whose file is gone: the handler
\* raises before its fourth check and sends no reply
C25_WitnessMissingFile ==
    /\ pc = "FileNotFoundError"
    /\ Len(pdf_files) = 1
    /\ target.type = "size"
    /\ reply = "none"

\* ---------------------------------------------------------------------------
\* C30: what sanitize_filename leaves in a file name
\* ---------------------------------------------------------------------------

Sanitized == sanitized.status = "returned"

\* the string holds the two-character sequence '..'
HasDotDot(s) == \E i \in 1..(Len(s) - 1) : s[i] = "." /\ s[i + 1] = "."

\* the string holds none of '/', backslash, NUL, newline, carriage return
\* and no '..'
CleanName(s) ==
    /\ \A i \in 1..Len(s) : s[i] \notin {"/", "\\", NUL, "\n", "\r"}
    /\ ~HasDotDot(s)

\* C30: for every input file name, the result of sanitize_filename holds no
\* '/', no backslash, no NUL, no newline or carriage return and no '..',
\* names longer than the length limit included.
C30_ResultIsClean == Sanitized => CleanName(sanitized.value)

\* the same for the names that the replacements leave within the limit
C30_ResultIsCleanWithinLimit ==
    (Sanitized /\ Len(filename) <= NameLimit) => CleanName(sanitized.value)

\* the single characters never survive, whatever the length
C30_NoSingleDangerousCharacter ==
    Sanitized => \A i \in 1..Len(sanitized.value) :
                    sanitized.value[i] \notin {"/", "\\", NUL, "\n", "\r"}

\* a name over the limit whose stem is cut right after a dot: the cut stem
\* and the extension are joined into '..'
C30_WitnessTruncatedJoin ==
    /\ Sanitized
    /\ Len(filename) > NameLimit
    /\ ~HasDotDot(filename)
    /\ HasDotDot(sanitized.value)

\* ---------------------------------------------------------------------------
\* C22: the number of files /merge and merge_pdfs accept
\* ---------------------------------------------------------------------------

\* the step in which merge_pdfs is called directly or merge_command runs
MergeRuns == pc = "start" /\ pc' \in {"called", "done"}

MergeRejections == { "Not enough PDFs to merge", "Too many files" }

\* C22: merge_pdfs and the /merge handler go on only when the number n of
\* pending PDFs satisfies 2 <= n <= MAX_MERGE_FILES; for n < 2 or n > 20
\* merge_pdfs raises ValueError, the handler replies with a rejection
\* without calling it, nothing is merged or written, and the pending list
\* and the stored files are left as they were.
C22_MergeOnlyWithinBounds ==
    [][MergeRuns =>
          LET n == Len(pdf_files)
          IN  /\ merge_result'.status \in {"ok", "FileNotFoundError", "Exception"}
                    => (2 <= n /\ n <= MAX_MERGE_FILES)
              /\ (n < 2 \/ n > MAX_MERGE_FILES) =>
                    /\ pdf_files' = pdf_files
                    /\ files' = files
                    /\ user_dirs' = user_dirs
                    /\ dir_on_disk' = dir_on_disk
                    /\ pc' = "called" => merge_result'.status = "ValueError"
                    /\ pc' = "done" => /\ merge_result' = merge_result
                                       /\ reply' \in MergeRejections
              /\ (2 <= n /\ n <= MAX_MERGE_FILES)
                    => merge_result'.status \in {"ok", "FileNotFoundError", "Exception"}]_vars

\* MAX_MERGE_FILES + 1 pending PDFs: the handler turns the request down
C22_WitnessTooMany ==
    /\ pc = "done"
    /\ Len(pdf_files) = MAX_MERGE_FILES + 1
    /\ reply = "Too many files"
    /\ merge_result.status = "pending"
    /\ Cardinality(files) = MAX_MERGE_FILES + 1

\* one pending PDF: merge_pdfs raises ValueError
C22_WitnessTooFew ==
    /\ pc = "called"
    /\ Len(pdf_files) = 1
    /\ merge_result.status = "ValueError"

\* exactly MAX_MERGE_FILES pending PDFs are merged by the handler
C22_WitnessMerged ==
    /\ pc = "done"
    /\ reply = "Merge complete"
    /\ merge_result.status = "ok"
    /\ Len(merge_result.merged) = MAX_MERGE_FILES

\* ---------------------------------------------------------------------------
\* C26: the pending list after a sequence of uploads
\* ---------------------------------------------------------------------------

\* the document had a .pdf file name, a size of at most MAX_FILE_SIZE and
\* passed validate_pdf
Accepted(d) ==
    /\ endswith(lower(d.file_name), dot_pdf)
    /\ d.file_size <= MAX_FILE_SIZE
    /\ d.validated = "passed"

\* the paths of the accepted documents among ds, in the order they were sent
AcceptedPaths(ds) ==
    LET accepted == SelectSeq(ds, Accepted)
    IN  [i \in 1..Len(accepted) |-> accepted[i].path]

\* a step in which handle_pdf_file handled one more document
Uploaded == Len(documents') = Len(documents) + 1

\* C26: after any sequence of uploads the pending PDF list holds exactly the
\* paths of the uploads that had a .pdf file name, a size of at most
\* MAX_FILE_SIZE and passed validate_pdf, in upload order; an accepted
\* upload appends exactly one path, a rejected upload leaves the list
\* unchanged, and a file that fails validation after its download is no
\* longer in the user's directory.
C26_PendingListIsAcceptedUploads ==
    /\ [](pdf_files = AcceptedPaths(documents))
    /\ [][Uploaded =>
            LET d == documents'[Len(documents')]
            IN  /\ Accepted(d) => pdf_files' = Append(pdf_files, d.path)
                /\ ~Accepted(d) => pdf_files' = pdf_files
                /\ d.validated = "failed" => ~\E f \in files' : f.name = d.path]_vars

\* an upload that failed validation and was deleted, then an accepted one
C26_WitnessRejectedThenAccepted ==
    /\ Len(documents) = 2
    /\ documents[1].validated = "failed"
    /\ documents[2].validated = "passed"
    /\ pdf_files = <<documents[2].path>>
    /\ documents[1].path # documents[2].path
    /\ ~\E f \in files : f.name = documents[1].path

\* two accepted uploads, kept in the order they were sent
C26_WitnessTwoInOrder ==
    /\ Len(documents) = 2
    /\ pdf_files = << <<"b", ".", "P", "D", "F">>, <<"a", ".", "p", "d", "f">> >>

\* an upload over MAX_FILE_SIZE after an accepted one leaves the list alone
C26_WitnessTooLarge ==
    /\ Len(documents) = 2
    /\ documents[2].file_size > MAX_FILE_SIZE
    /\ reply = "File too large"
    /\ Len(pdf_files) = 1

\* ---------------------------------------------------------------------------
\* C27: the periodic cleanup and the storage a session refers to
\* ---------------------------------------------------------------------------

\* the directory tracked in user_dirs and every pending path exist on disk
ReferencedStorageExists ==
    /\ user_dirs => dir_on_disk
    /\ \A i \in 1..Len(pdf_files) : \E f \in files : f.name = pdf_files[i]

\* a round of the periodic cleanup that removed something: the disk changes,
\* the session and the tracking do not
CleanupRemoved ==
    /\ <<files, dir_on_disk>>' # <<files, dir_on_disk>>
    /\ UNCHANGED <<pdf_files, user_dirs, documents, reply, analytics>>

\* C27: under every interleaving of uploads, commands and rounds of the
\* periodic cleanup, a round of cleanup_old_files leaves the tracked
\* directory and every pending path on disk: it never removes storage that
\* a live session still refers to.
C27_CleanupKeepsReferencedStorage ==
    [][(CleanupRemoved /\ ReferencedStorageExists) => ReferencedStorageExists']_vars

\* a session whose directory the periodic cleanup has removed: the
\* directory is still tracked and the pending path still listed
C27_WitnessDanglingSession ==
    /\ pdf_files # <<>>
    /\ user_dirs
    /\ ~dir_on_disk
    /\ files = {}
    /\ reply = "PDF received"

\* the next upload of such a session fails: its tracked directory is gone
C27_WitnessUploadFailsAfterwards ==
    /\ Len(documents) = 2
    /\ documents[1].validated = "passed"
    /\ documents[2].validated = "not called"
    /\ documents[2].path # <<>>
    /\ documents[2].file_size <= MAX_FILE_SIZE
    /\ reply = "Something went wrong"
    /\ user_dirs /\ ~dir_on_disk

\* ---------------------------------------------------------------------------
\* C23: what /split leaves of the session
\* ---------------------------------------------------------------------------

\* the try block of split_command has run
TryBlockRan == pc = "split" /\ pc' = "none"

\* split_command ended in the exception get_pdf_info raised before the try
\* block
RaisedBeforeTry ==
    /\ pc = "none" /\ pc' = "none"
    /\ split_result'.status = "FileNotFoundError"
    /\ reply' = "An unexpected error occurred"
    /\ UNCHANGED <<files, dir_on_disk>>

SessionUnchanged == UNCHANGED <<pdf_files, files, user_dirs, dir_on_disk, documents>>

SessionCleared ==
    /\ pdf_files' = <<>>
    /\ files' = {}
    /\ ~user_dirs'
    /\ ~dir_on_disk'

\* C23: when /split fails with an invalid page specification (ValueError)
\* the uploaded PDF, the tracked directory and the session data are left
\* unchanged; when /split succeeds or fails with any other exception the
\* user's files are cleaned up and the session data is cleared.
C23_SplitKeepsOrClears ==
    [][/\ (TryBlockRan /\ split_result'.status = "ValueError") => SessionUnchanged
       /\ (TryBlockRan /\ split_result'.status # "ValueError") => SessionCleared
       /\ RaisedBeforeTry => SessionCleared]_vars

\* the same for the outcomes of the try block alone
C23_TryBlockKeepsOrClears ==
    [][/\ (TryBlockRan /\ split_result'.status = "ValueError") => SessionUnchanged
       /\ (TryBlockRan /\ split_result'.status # "ValueError") => SessionCleared]_vars

\* /split on a pending PDF whose file is gone: FileNotFoundError from
\* get_pdf_info, nothing cleaned up, the session still lists the path
C23_WitnessRaisedBeforeTry ==
    /\ pc = "none"
    /\ split_result.status = "FileNotFoundError"
    /\ reply = "An unexpected error occurred"
    /\ Len(pdf_files) = 1
    /\ user_dirs
    /\ files = {}

\* an out-of-range page: the PDF is still there for a second attempt
C23_WitnessInvalidKeepsFile ==
    /\ pc = "none"
    /\ split_result.status = "ValueError"
    /\ reply = "Invalid page specification"
    /\ Len(pdf_files) = 1
    /\ \E f \in files : f.name = pdf_files[1]
    /\ user_dirs /\ dir_on_disk

\* a split that succeeded: files removed, session cleared
C23_WitnessSucceededCleared ==
    /\ pc = "none"
    /\ split_result.status = "ok"
    /\ reply = "Extraction complete"
    /\ pdf_files = <<>>
    /\ files = {}
    /\ ~user_dirs

\* the file vanished during the handler's awaits: split_pdf raises inside
\* the try block and the session is cleared
C23_WitnessFailedCleared ==
    /\ pc = "none"
    /\ split_result.status \in {"FileNotFoundError", "Exception"}
    /\ reply = "Extraction failed"
    /\ pdf_files = <<>>
    /\ ~user_dirs

====
